---- MODULE Spec2Model ----
(***************************************************************************)
(* A model of the PDF annotation utilities: copy_pdf_annotations.py (page  *)
(* specification parsing, page validation, extraction of non-highlight     *)
(* annotations, copying to a target document, main), debug_annotations,    *)
(* detect_flattened_annotations.py, ocr_annotation_detector.py and         *)
(* recreate_annotations.py.                                                *)
(* Text is modelled as sequences of one-character strings, a PDF as a      *)
(* sequence of pages, a page as a sequence of annotations.  The PDF        *)
(* library is not part of the repository: its calls are modelled by their  *)
(* outcome (a value, or an exception) drawn from the inputs.               *)
(***************************************************************************)
EXTENDS Integers, Sequences, FiniteSets, TLC

VARIABLES
    pc,               \* where the running function is
    finished,         \* the calls that have returned, where calls interleave
    pages_str,        \* parse_page_specification: its argument
    parse_result,     \* parse_page_specification: what it returned or raised
    page_filter,      \* the set of zero-based pages passed as page_filter
    val_doc,          \* validate_pages_exist: the PDF at pdf_path
    validate_result,  \* validate_pages_exist: what it returned or raised
    src_doc,          \* the PDF at the source path
    MEMORY_EFFICIENT, \* the performance setting of the same name
    annotations,      \* what get_non_highlight_annotations returned
    std_result,       \* what _get_annotations_standard returned
    mem_result,       \* what _get_annotations_memory_efficient returned
    debug_out,        \* debug_pdf_annotations: what it printed and returned
    target_doc,       \* the PDF at the target path
    BATCH_SIZE,       \* the performance setting of the same name
    copy_out,         \* copy_annotations_to_pdf: its loop, what it saved and printed
    copy_std,         \* the outcome of the standard copy loop
    copy_batched,     \* the outcome of _copy_annotations_batched
    USE_COMMAND_LINE_ARGS,  \* the configuration variable of the same name
    PAGES,            \* the configuration variable of the same name
    argv,             \* sys.argv
    files,            \* the PDF at each path
    main_out,         \* main: the mode chosen, its four values, its exit status
    contours,         \* analyze_contours: its argument
    contour_result,   \* analyze_contours: the list it returned
    original_pdf,     \* the PDF at the original path
    annotated_pdf,    \* the PDF at the annotated path
    detect_out,       \* detect_flattened_annotations: what it printed, saved, returned
    text_blocks,      \* page.get_text("dict") of the page looked at
    characteristics,  \* what analyze_text_characteristics returned
    potential_annotations,  \* what find_potential_annotation_text returned
    recreator,        \* the AnnotationRecreator: its open document and annotations
    session           \* the interactive session: rounds, how it ended, what was saved

parseVars == <<pages_str, parse_result>>
validateVars == <<val_doc, validate_result>>
extractVars == <<src_doc, MEMORY_EFFICIENT, annotations, std_result, mem_result>>
debugVars == <<debug_out>>
copyVars == <<target_doc, BATCH_SIZE, copy_out, copy_std, copy_batched>>
mainVars == <<USE_COMMAND_LINE_ARGS, PAGES, argv, files, main_out>>
detectVars == <<contours, contour_result, original_pdf, annotated_pdf, detect_out>>
ocrVars == <<text_blocks, characteristics, potential_annotations>>
recreateVars == <<recreator, session>>
toolVars == <<detectVars, ocrVars, recreateVars>>
vars == <<pc, finished, page_filter, parseVars, validateVars, extractVars, debugVars, copyVars, mainVars, toolVars>>

\* ------------------------------------------------------------------ bounds

\* Longest page specification string drawn exhaustively from Alphabet.
MaxLen == 5

\* Most pages of a PDF; page filters are drawn from the pages 0..MaxPages, so
\* they can name pages past the end of every PDF.
MaxPages == 3

\* Most pages of a source PDF in the extraction runs: nine pages make the
\* memory-efficient extraction use batches of two pages with a last batch of
\* one.
MaxSrcPages == 9

\* Most annotations on a page.
MaxAnnots == 2

\* The page filters of the extraction runs leave out or pick page k, for k up
\* to MaxSkip.
MaxSkip == 2

\* Largest BATCH_SIZE setting tried.
MaxBatch == 3

\* Bounding boxes have sides 10, 20, .. 10 * MaxRatio pixels.
MaxRatio == 6

\* Contours, or spans, before and after the one drawn from every kind.
MaxFill == 1

\* Most spans of a page whose fonts, sizes and colours are counted.
MaxSpans == 3

\* Most rounds of the interactive menu in a session.
MaxRounds == 3

\* ------------------------------------------------------------------- text

Digits == {"0", "1", "2", "3", "4", "5", "6", "7", "8", "9"}
Whitespace == {" "}

\* The characters page specifications are drawn from.
Alphabet == {"0", "1", "2", "-", ",", " "}

Min(S) == CHOOSE x \in S : \A y \in S : x <= y
Max(S) == CHOOSE x \in S : \A y \in S : x >= y

\* str.strip(): drop leading and trailing whitespace.
Strip(s) ==
    LET keep == {i \in 1..Len(s) : s[i] \notin Whitespace}
    IN  IF keep = {} THEN <<>> ELSE SubSeq(s, Min(keep), Max(keep))

\* Index of the first occurrence of character c in s, 0 when there is none.
Find(s, c) ==
    LET at == {i \in 1..Len(s) : s[i] = c}
    IN  IF at = {} THEN 0 ELSE Min(at)

\* str.split(sep): every piece between separators, empty pieces kept.
RECURSIVE Split(_, _)
Split(s, sep) ==
    LET i == Find(s, sep)
    IN  IF i = 0 THEN <<s>>
        ELSE <<SubSeq(s, 1, i - 1)>> \o Split(SubSeq(s, i + 1, Len(s)), sep)

\* str.split(sep, 1) of a string that holds sep: the text before and after
\* the first separator.
SplitFirst(s, sep) ==
    LET i == Find(s, sep)
    IN  <<SubSeq(s, 1, i - 1), SubSeq(s, i + 1, Len(s))>>

DigitVal(c) ==
    CASE c = "0" -> 0 [] c = "1" -> 1 [] c = "2" -> 2 [] c = "3" -> 3
      [] c = "4" -> 4 [] c = "5" -> 5 [] c = "6" -> 6 [] c = "7" -> 7
      [] c = "8" -> 8 [] c = "9" -> 9

RECURSIVE DecValue(_)
DecValue(s) ==
    IF s = <<>> THEN 0
    ELSE 10 * DecValue(SubSeq(s, 1, Len(s) - 1)) + DigitVal(s[Len(s)])

\* int(text): surrounding whitespace is ignored, one leading minus sign is
\* accepted, the rest must be one or more decimal digits; anything else raises
\* ValueError("invalid literal ...").
IntBody(text) ==
    LET t == Strip(text)
    IN  IF t # <<>> /\ t[1] = "-" THEN Tail(t) ELSE t

IntValid(text) ==
    LET b == IntBody(text)
    IN  b # <<>> /\ \A i \in 1..Len(b) : b[i] \in Digits

IntValue(text) ==
    LET t == Strip(text)
    IN  IF t[1] = "-" THEN 0 - DecValue(IntBody(text)) ELSE DecValue(IntBody(text))

\* Optional[Set[int]]: page_filter is None or a set of zero-based pages.
NoFilter == [given |-> FALSE, pages |-> {}]
Filter(S) == [given |-> TRUE, pages |-> S]

\* --------------------------------------------- parse_page_specification

ValueError(msg) == [exc |-> "ValueError", msg |-> msg]
Returned(v) == [exc |-> "none", value |-> v]

\* range(start - 1, end): the zero-based pages of the 1-based range, end
\* inclusive.
RangePagesMutant(start, end) == (start - 1)..(end - 2)
RangePages(start, end) == (start - 1)..(end - 1)

\* The two checks of a parsed range; "ok" when both pass.
RangeCheckMutant(start, end) ==
    IF start < 1 \/ end < 1 THEN "Page numbers must be >= 1" ELSE "ok"
RangeCheck(start, end) ==
    IF start < 1 \/ end < 1 THEN "Page numbers must be >= 1"
    ELSE IF start > end THEN "Invalid range" ELSE "ok"

\* One comma-separated item, already stripped: the pages it adds, or the
\* ValueError it raises.
ParseItem(spec) ==
    IF Find(spec, "-") # 0
    THEN LET parts == SplitFirst(spec, "-")
         IN  IF ~IntValid(parts[1]) \/ ~IntValid(parts[2])
             THEN ValueError("Invalid range format")
             ELSE LET start == IntValue(parts[1])
                      end == IntValue(parts[2])
                  IN  IF RangeCheck(start, end) # "ok"
                      THEN ValueError(RangeCheck(start, end))
                      ELSE Returned(RangePages(start, end))
    ELSE IF ~IntValid(spec) THEN ValueError("Invalid page number")
         ELSE IF IntValue(spec) < 1 THEN ValueError("Page numbers must be >= 1")
              ELSE Returned({IntValue(spec) - 1})

\* The loop over the items: pages accumulate until an item raises.
RECURSIVE ParseItems(_, _)
ParseItems(items, pages) ==
    IF items = <<>> THEN Returned(pages)
    ELSE LET r == ParseItem(Strip(Head(items)))
         IN  IF r.exc # "none" THEN r
             ELSE ParseItems(Tail(items), pages \cup r.value)

parse_page_specification(s) ==
    IF s = <<>> \/ Strip(s) = <<>>
    THEN ValueError("Page specification cannot be empty")
    ELSE ParseItems(Split(s, ","), {})

\* ------------------------------------------------- validate_pages_exist

FileNotFoundError(msg) == [exc |-> "FileNotFoundError", msg |-> msg]

\* {p for p in page_filter if p < total_pages}
ValidPagesMutant(filter, total_pages) == {p \in filter : p <= total_pages}
ValidPages(filter, total_pages) == {p \in filter : p < total_pages}

\* fitz.open failing is reported as FileNotFoundError; with no valid page the
\* function raises ValueError, from its own raise or, for an empty
\* page_filter, from max() of an empty sequence.
validate_pages_exist(doc, filter) ==
    IF ~doc.opens THEN FileNotFoundError("Cannot open PDF")
    ELSE LET valid_pages == ValidPages(filter.pages, doc.total_pages)
         IN  IF valid_pages = {}
             THEN IF filter.pages = {}
                  THEN ValueError("max() arg is an empty sequence")
                  ELSE ValueError("No valid pages to process")
             ELSE Returned(valid_pages)

\* ------------------------------------------------------ PDFs, annotations

\* str.lower() on the letters annotation type names are written with.
UpperLetters ==
    <<"A", "B", "C", "D", "E", "F", "G", "H", "I", "J", "K", "L", "M",
      "N", "O", "P", "Q", "R", "S", "T", "U", "V", "W", "X", "Y", "Z">>
LowerLetters ==
    <<"a", "b", "c", "d", "e", "f", "g", "h", "i", "j", "k", "l", "m",
      "n", "o", "p", "q", "r", "s", "t", "u", "v", "w", "x", "y", "z">>

LowerChar(c) ==
    IF \E i \in DOMAIN UpperLetters : UpperLetters[i] = c
    THEN LowerLetters[CHOOSE i \in DOMAIN UpperLetters : UpperLetters[i] = c]
    ELSE c

Lower(s) == [i \in 1..Len(s) |-> LowerChar(s[i])]

\* The string literals the code compares type names with.
highlight == <<"h", "i", "g", "h", "l", "i", "g", "h", "t">>
text == <<"t", "e", "x", "t">>
freetext == <<"f", "r", "e", "e", "t", "e", "x", "t">>

\* annot.type values of the PDF library, (number, name).
HighlightType == <<8, <<"H", "i", "g", "h", "l", "i", "g", "h", "t">> >>
LowerHighlightType == <<8, highlight>>
TextType == <<0, <<"T", "e", "x", "t">> >>
SquareType == <<4, <<"S", "q", "u", "a", "r", "e">> >>

\* annot.type values of the PDF library come with the attributes colors,
\* border and line_ends; a text annotation has a stroke colour, a shape a
\* stroke and a fill colour and a border, a highlight a stroke colour.
AnnotOfType(type, readable, raises) ==
    [type |-> type,
     readable |-> readable,
     colors |-> IF type = SquareType THEN {"stroke", "fill"} ELSE {"stroke"},
     border |-> type = SquareType,
     line_ends |-> FALSE,
     raises |-> raises]

\* An annotation of a PDF: its type and attributes; whether the library can
\* read its attributes (reading annot.rect raises when it cannot; annot.type
\* is always read); and the library call that raises when the annotation is
\* created again from its data ("none" when none does).  Its content names
\* it: the page it is on and its place in the page's annotation list.
AnnotKinds ==
    {AnnotOfType(HighlightType, TRUE, "none"),
     AnnotOfType(HighlightType, FALSE, "none"),
     AnnotOfType(LowerHighlightType, TRUE, "none"),
     AnnotOfType(TextType, TRUE, "none"),
     AnnotOfType(SquareType, FALSE, "none")}

Raised == [exc |-> "Exception"]

\* A file that is not a PDF, and a path with no file.
CorruptDoc == [file |-> "corrupt", pages |-> <<>>]
MissingDoc == [file |-> "missing", pages |-> <<>>]

\* A dict, as the sequence of its items in insertion order.
EmptyDict == <<>>
DictKeys(d) == {d[i].key : i \in DOMAIN d}
DictGet(d, k) == d[CHOOSE i \in DOMAIN d : d[i].key = k].value
DictSet(d, k, v) ==
    IF k \in DictKeys(d)
    THEN [i \in DOMAIN d |-> IF d[i].key = k THEN [key |-> k, value |-> v] ELSE d[i]]
    ELSE Append(d, [key |-> k, value |-> v])

\* sorted(S) as a list.
RECURSIVE Sorted(_)
Sorted(S) == IF S = {} THEN <<>> ELSE <<Min(S)>> \o Sorted(S \ {Min(S)})

\* ----------------------------------------------------------- extraction

\* _extract_annotation_data: the dictionary kept of one annotation; text and
\* free text annotations get the font keys as well.
_extract_annotation_data(annot, annot_type) ==
    [type |-> annot.type,
     content |-> annot.content,
     colors |-> annot.colors,
     border |-> annot.border,
     line_ends |-> annot.line_ends,
     raises |-> annot.raises,
     has_fontsize |-> Lower(annot_type) \in {text, freetext}]

\* The pages to process: all of them, or the pages of page_filter that exist,
\* in ascending order.
PagesToProcess(total_pages, filter) ==
    IF ~filter.given THEN [i \in 1..total_pages |-> i - 1]
    ELSE Sorted({p \in filter.pages : p < total_pages})

\* annot_type.lower() != 'highlight', in the standard extraction.
NonHighlightStandardMutant(annot_type) == annot_type # HighlightType[2]
NonHighlightStandard(annot_type) == Lower(annot_type) # highlight

\* The loop over one page's annotations in _get_annotations_standard.
RECURSIVE StandardAnnots(_, _)
StandardAnnots(annots, kept) ==
    IF annots = <<>> THEN Returned(kept)
    ELSE LET annot == Head(annots)
             annot_type == annot.type[2]
         IN  IF NonHighlightStandard(annot_type)
             THEN IF ~annot.readable THEN Raised
                  ELSE StandardAnnots(Tail(annots),
                         Append(kept, _extract_annotation_data(annot, annot_type)))
             ELSE StandardAnnots(Tail(annots), kept)

\* The loop over pages_to_process in _get_annotations_standard.
RECURSIVE StandardPages(_, _, _)
StandardPages(doc, pages, annotations_by_page) ==
    IF pages = <<>> THEN Returned(annotations_by_page)
    ELSE LET page_num == Head(pages)
             r == StandardAnnots(doc.pages[page_num + 1], <<>>)
         IN  IF r.exc # "none" THEN r
             ELSE StandardPages(doc, Tail(pages),
                    IF r.value # <<>>
                    THEN DictSet(annotations_by_page, page_num, r.value)
                    ELSE annotations_by_page)

\* Any exception (the file not opening, an annotation not readable) ends the
\* function with an empty dictionary.
_get_annotations_standard(doc, filter) ==
    IF doc.file # "ok" THEN EmptyDict
    ELSE LET r == StandardPages(doc, PagesToProcess(Len(doc.pages), filter),
                                EmptyDict)
         IN  IF r.exc # "none" THEN EmptyDict ELSE r.value

\* annot_type.lower() != 'highlight', in the memory-efficient extraction.
NonHighlightMemoryEfficient(annot_type) == Lower(annot_type) # highlight

RECURSIVE MemoryEfficientAnnots(_, _)
MemoryEfficientAnnots(annots, kept) ==
    IF annots = <<>> THEN Returned(kept)
    ELSE LET annot == Head(annots)
             annot_type == annot.type[2]
         IN  IF NonHighlightMemoryEfficient(annot_type)
             THEN IF ~annot.readable THEN Raised
                  ELSE MemoryEfficientAnnots(Tail(annots),
                         Append(kept, _extract_annotation_data(annot, annot_type)))
             ELSE MemoryEfficientAnnots(Tail(annots), kept)

\* The loop over one batch's pages.
RECURSIVE BatchPages(_, _, _)
BatchPages(doc, batch_pages, annotations_by_page) ==
    IF batch_pages = <<>> THEN Returned(annotations_by_page)
    ELSE LET page_num == Head(batch_pages)
             r == MemoryEfficientAnnots(doc.pages[page_num + 1], <<>>)
         IN  IF r.exc # "none" THEN r
             ELSE BatchPages(doc, Tail(batch_pages),
                    IF r.value # <<>>
                    THEN DictSet(annotations_by_page, page_num, r.value)
                    ELSE annotations_by_page)

\* batch_size = max(1, min(10, len(pages_to_process) // 4))
BatchSize(n) == Max({1, Min({10, n \div 4})})

\* batch_end = min(batch_start + batch_size, len(pages_to_process))
BatchEndMutant(batch_start, batch_size, n) ==
    IF batch_start + batch_size > n THEN batch_start ELSE batch_start + batch_size
BatchEnd(batch_start, batch_size, n) == Min({batch_start + batch_size, n})

\* for batch_start in range(0, len(pages_to_process), batch_size)
RECURSIVE Batches(_, _, _, _, _)
Batches(doc, pages, batch_start, batch_size, annotations_by_page) ==
    IF batch_start >= Len(pages) THEN Returned(annotations_by_page)
    ELSE LET batch_end == BatchEnd(batch_start, batch_size, Len(pages))
             batch_pages == SubSeq(pages, batch_start + 1, batch_end)
             r == BatchPages(doc, batch_pages, annotations_by_page)
         IN  IF r.exc # "none" THEN r
             ELSE Batches(doc, pages, batch_start + batch_size, batch_size,
                          r.value)

_get_annotations_memory_efficient(doc, filter) ==
    IF doc.file # "ok" THEN EmptyDict
    ELSE LET pages_to_process == PagesToProcess(Len(doc.pages), filter)
             r == Batches(doc, pages_to_process, 0,
                          BatchSize(Len(pages_to_process)), EmptyDict)
         IN  IF r.exc # "none" THEN EmptyDict ELSE r.value

get_non_highlight_annotations(doc, filter, memory_efficient) ==
    IF memory_efficient THEN _get_annotations_memory_efficient(doc, filter)
    ELSE _get_annotations_standard(doc, filter)

\* ------------------------------------------------ debug_pdf_annotations

\* The verdict printed for one annotation.
DebugVerdictMutant(annot_type_str) ==
    IF annot_type_str = HighlightType[2] THEN "EXCLUDED" ELSE "INCLUDED"
DebugVerdict(annot_type_str) ==
    IF Lower(annot_type_str) = highlight THEN "EXCLUDED" ELSE "INCLUDED"

\* annotation_types[annot_type_str] += 1, the key created at 1.
CountTypeMutant(annotation_types, annot_type_str) ==
    DictSet(annotation_types, annot_type_str, 1)
CountType(annotation_types, annot_type_str) ==
    IF annot_type_str \in DictKeys(annotation_types)
    THEN DictSet(annotation_types, annot_type_str,
                 DictGet(annotation_types, annot_type_str) + 1)
    ELSE DictSet(annotation_types, annot_type_str, 1)

\* The loop over one page's annotations: what has been printed and counted
\* so far is st; reading an unreadable annotation's rect raises.
RECURSIVE DebugAnnots(_, _, _, _)
DebugAnnots(page_num, annots, page_annotations, st) ==
    IF annots = <<>>
    THEN [st EXCEPT !.page_totals =
              Append(@, [page_num |-> page_num, total |-> page_annotations])]
    ELSE LET annot == Head(annots)
             annot_type_str == annot.type[2]
         IN  IF ~annot.readable THEN [st EXCEPT !.exc = "Exception"]
             ELSE DebugAnnots(page_num, Tail(annots), page_annotations + 1,
                    [st EXCEPT
                       !.annotation_types = CountType(@, annot_type_str),
                       !.verdicts = Append(@, [page_num |-> page_num,
                                               content |-> annot.content,
                                               verdict |-> DebugVerdict(annot_type_str)]),
                       !.total_annotations = @ + 1])

\* for page_num in range(len(doc)): a page with no annotation is reported
\* and skipped.
RECURSIVE DebugPages(_, _, _)
DebugPages(doc, page_num, st) ==
    IF page_num >= Len(doc.pages) \/ st.exc # "none" THEN st
    ELSE DebugPages(doc, page_num + 1,
           IF doc.pages[page_num + 1] = <<>> THEN st
           ELSE DebugAnnots(page_num, doc.pages[page_num + 1], 0, st))

DebugStart ==
    [verdicts |-> <<>>, page_totals |-> <<>>, total_annotations |-> 0,
     annotation_types |-> EmptyDict, exc |-> "none"]

\* The summary's "Non-highlight annotations" line.
SummaryNonHighlight(st) ==
    st.total_annotations -
        (IF HighlightType[2] \in DictKeys(st.annotation_types)
         THEN DictGet(st.annotation_types, HighlightType[2]) ELSE 0)

\* What debug_pdf_annotations printed (verdicts, page totals, summary) and
\* returned.
debug_pdf_annotations(doc) ==
    IF doc.file = "missing"
    THEN [printed |-> DebugStart, summary |-> "none", returned |-> FALSE]
    ELSE IF doc.file # "ok"
    THEN [printed |-> [DebugStart EXCEPT !.exc = "Exception"],
          summary |-> "none", returned |-> FALSE]
    ELSE LET st == DebugPages(doc, 0, DebugStart)
         IN  IF st.exc # "none"
             THEN [printed |-> st, summary |-> "none", returned |-> FALSE]
             ELSE [printed |-> st,
                   summary |-> [total |-> st.total_annotations,
                                non_highlight |-> SummaryNonHighlight(st),
                                types |-> st.annotation_types],
                   returned |-> st.total_annotations > 0]

\* ---------------------------------------------------------------- copying

\* The library calls _copy_single_annotation makes for one annotation, in
\* order, when none raises.
CopyCalls(annot_data) ==
    <<"add_annotation", "set_content", "set_flags">>
    \o (IF annot_data.colors # {}
        THEN (IF "stroke" \in annot_data.colors
              THEN <<"set_colors(stroke)">> ELSE <<>>)
             \o (IF "fill" \in annot_data.colors
                 THEN <<"set_colors(fill)">> ELSE <<>>)
        ELSE <<>>)
    \o (IF annot_data.border THEN <<"set_border">> ELSE <<>>)
    \o (IF annot_data.line_ends THEN <<"set_line_ends">> ELSE <<>>)
    \o <<"set_opacity", "set_info">>
    \o (IF Lower(annot_data.type[2]) \in {text, freetext}
           /\ annot_data.has_fontsize
        THEN <<"set_fontsize", "set_fontname", "set_colors(text_color)">>
        ELSE <<>>)
    \o <<"update">>

\* The calls made before and including the one that raises; all of them when
\* none raises.
CallsMade(annot_data) ==
    LET calls == CopyCalls(annot_data)
        at == Find(calls, annot_data.raises)
    IN  IF at = 0 THEN calls ELSE SubSeq(calls, 1, at)

\* The value _copy_single_annotation returns: True when update() returned,
\* False from the except clause.
CopyReturnsMutant(annot_data) == annot_data.raises = "none"
CopyReturns(annot_data) ==
    Find(CopyCalls(annot_data), annot_data.raises) = 0

\* _copy_single_annotation: the page afterwards and the value returned.  An
\* annotation that add_annotation created stays on the page when a later
\* call raises.
_copy_single_annotation(page, annot_data, page_num) ==
    [page |-> IF annot_data.raises = "add_annotation" THEN page
              ELSE Append(page, [content |-> annot_data.content,
                                 type |-> annot_data.type[1],
                                 calls |-> CallsMade(annot_data)]),
     returned |-> CopyReturns(annot_data)]

\* What a copy loop has done so far: the document's pages, the calls of
\* _copy_single_annotation in order, the annotations skipped, the warnings
\* printed and the counter.
CopyStart(doc) ==
    [pages |-> doc.pages, attempts |-> <<>>, skipped |-> <<>>,
     warnings |-> <<>>, total_copied |-> 0, processed_annotations |-> 0]

\* One annotation copied to page page_num.
CopyOne(st, page_num, annot_data) ==
    LET r == _copy_single_annotation(st.pages[page_num + 1], annot_data, page_num)
    IN  [st EXCEPT
           !.pages[page_num + 1] = r.page,
           !.attempts = Append(@, [page_num |-> page_num,
                                   content |-> annot_data.content,
                                   returned |-> r.returned]),
           !.total_copied = IF r.returned THEN @ + 1 ELSE @,
           !.processed_annotations = @ + 1]

\* if page_num >= len(doc): the target has no page of this index.
SkipsPageMutant(st, page_num) == page_num + 1 >= Len(st.pages)
SkipsPage(st, page_num) == page_num >= Len(st.pages)

SkipList(page_num, list) ==
    [i \in 1..Len(list) |-> [page_num |-> page_num, content |-> list[i].content]]

\* for annot_data in annotations (the standard loop's inner loop)
RECURSIVE StandardCopyPage(_, _, _)
StandardCopyPage(st, page_num, list) ==
    IF list = <<>> THEN st
    ELSE StandardCopyPage(CopyOne(st, page_num, Head(list)), page_num, Tail(list))

\* for page_num, annotations in annotations_by_page.items(): a page the
\* target does not have is warned about and skipped whole.
RECURSIVE StandardCopy(_, _)
StandardCopy(st, items) ==
    IF items = <<>> THEN st
    ELSE LET page_num == Head(items).key
             list == Head(items).value
         IN  IF SkipsPage(st, page_num)
             THEN StandardCopy(
                    [st EXCEPT !.warnings = Append(@, page_num),
                               !.skipped = @ \o SkipList(page_num, list)],
                    Tail(items))
             ELSE StandardCopy(StandardCopyPage(st, page_num, list), Tail(items))

\* all_annotations: the (page_num, annot_data) pairs in dictionary order.
RECURSIVE Flatten(_)
Flatten(items) ==
    IF items = <<>> THEN <<>>
    ELSE [i \in 1..Len(Head(items).value) |->
            [page_num |-> Head(items).key, annot_data |-> Head(items).value[i]]]
         \o Flatten(Tail(items))

\* for page_num, annot_data in batch
RECURSIVE BatchedCopyBatch(_, _)
BatchedCopyBatch(st, batch) ==
    IF batch = <<>> THEN st
    ELSE LET page_num == Head(batch).page_num
             annot_data == Head(batch).annot_data
         IN  IF SkipsPage(st, page_num)
             THEN BatchedCopyBatch(
                    [st EXCEPT
                       !.warnings = IF st.processed_annotations = 0
                                    THEN Append(@, page_num) ELSE @,
                       !.skipped = Append(@, [page_num |-> page_num,
                                              content |-> annot_data.content]),
                       !.processed_annotations = @ + 1],
                    Tail(batch))
             ELSE BatchedCopyBatch(CopyOne(st, page_num, annot_data), Tail(batch))

\* batch = all_annotations[batch_start:batch_end]
CopyBatchMutant(all_annotations, batch_start, batch_size) ==
    SubSeq(all_annotations, batch_start + 1,
           IF batch_start + batch_size > Len(all_annotations)
           THEN Len(all_annotations) - 1 ELSE batch_start + batch_size)
CopyBatch(all_annotations, batch_start, batch_size) ==
    SubSeq(all_annotations, batch_start + 1,
           Min({batch_start + batch_size, Len(all_annotations)}))

\* for batch_start in range(0, len(all_annotations), BATCH_SIZE)
RECURSIVE BatchedCopy(_, _, _, _)
BatchedCopy(st, all_annotations, batch_start, batch_size) ==
    IF batch_start >= Len(all_annotations) THEN st
    ELSE BatchedCopy(
           BatchedCopyBatch(st, CopyBatch(all_annotations, batch_start, batch_size)),
           all_annotations, batch_start + batch_size, batch_size)

_copy_annotations_batched(doc, annotations_by_page, batch_size) ==
    BatchedCopy(CopyStart(doc), Flatten(annotations_by_page), 0, batch_size)

\* sum(len(annotations) for annotations in annotations_by_page.values())
RECURSIVE TotalAnnotations(_)
TotalAnnotations(items) ==
    IF items = <<>> THEN 0
    ELSE Len(Head(items).value) + TotalAnnotations(Tail(items))

\* Which loop copy_annotations_to_pdf runs.
UsesBatching(annotations_by_page, batch_size) ==
    batch_size > 0 /\ TotalAnnotations(annotations_by_page) > batch_size

\* copy_annotations_to_pdf up to doc.save: the loop's outcome, or the
\* exception of a target that does not open.
CopyLoop(doc, annotations_by_page, batch_size) ==
    IF doc.file # "ok" THEN Raised
    ELSE Returned(
           IF UsesBatching(annotations_by_page, batch_size)
           THEN _copy_annotations_batched(doc, annotations_by_page, batch_size)
           ELSE StandardCopy(CopyStart(doc), annotations_by_page))

\* ------------------------------------------------------------------- main

\* The configuration variables that hold paths.
SOURCE_PDF == "source.pdf"
TARGET_PDF == "target.pdf"
OUTPUT_PDF == "output.pdf"

\* An optional string: PAGES and args.pages are None or a string.
None == [given |-> FALSE, str |-> ""]
Str(s) == [given |-> TRUE, str |-> s]

\* if pages_spec: neither None nor the empty string.
Truthy(pages_spec) == pages_spec.given /\ pages_spec.str # ""

\* The characters of the page specifications used.
Chars(s) ==
    CASE s = "1" -> <<"1">>
      [] s = "2-3" -> <<"2", "-", "3">>
      [] s = "9" -> <<"9">>
      [] s = "3-2" -> <<"3", "-", "2">>
      [] OTHER -> <<>>

PageOptions == {"--pages", "-p"}

\* argparse: the positional arguments left when each --pages/-p and its value
\* are taken out, and the value of the last such option.
RECURSIVE Positionals(_)
Positionals(args) ==
    IF args = <<>> THEN <<>>
    ELSE IF Head(args) \in PageOptions
         THEN IF Len(args) >= 2 THEN Positionals(Tail(Tail(args))) ELSE <<>>
         ELSE <<Head(args)>> \o Positionals(Tail(args))

RECURSIVE PagesOption(_, _)
PagesOption(args, sofar) ==
    IF args = <<>> THEN Returned(sofar)
    ELSE IF Head(args) \in PageOptions
         THEN IF Len(args) >= 2
              THEN PagesOption(Tail(Tail(args)), Str(args[2]))
              ELSE [exc |-> "SystemExit"]
         ELSE PagesOption(Tail(args), sofar)

\* parse_command_line_args: the four values, or argparse's exit with status 2
\* when the three paths are not all given or an option lacks its value.
parse_command_line_args(sys_argv) ==
    LET args == Tail(sys_argv)
        pages == PagesOption(args, None)
        paths == Positionals(args)
    IN  IF pages.exc # "none" \/ Len(paths) # 3
        THEN [exc |-> "SystemExit"]
        ELSE Returned([source_pdf |-> paths[1], target_pdf |-> paths[2],
                       output_pdf |-> paths[3], pages_spec |-> pages.value])

\* if USE_COMMAND_LINE_ARGS and len(sys.argv) > 1
UsesCommandLineMutant(use_command_line_args, sys_argv) == Len(sys_argv) > 1
UsesCommandLine(use_command_line_args, sys_argv) ==
    use_command_line_args /\ Len(sys_argv) > 1

\* The configuration variables, as main takes them.
Configuration(pages) ==
    [source_pdf |-> SOURCE_PDF, target_pdf |-> TARGET_PDF,
     output_pdf |-> OUTPUT_PDF, pages_spec |-> pages]

\* What validate_pages_exist sees of a file.
Opened(doc) == [opens |-> doc.file = "ok", total_pages |-> Len(doc.pages)]

\* main's page_filter: parse_page_specification, then validate_pages_exist
\* for the source and for the target.
MainPageFilter(pages_spec, source, target) ==
    IF ~Truthy(pages_spec) THEN Returned(NoFilter)
    ELSE LET parsed == parse_page_specification(Chars(pages_spec.str))
         IN  IF parsed.exc # "none" THEN parsed
             ELSE LET in_source ==
                        validate_pages_exist(Opened(source), Filter(parsed.value))
                  IN  IF in_source.exc # "none" THEN in_source
                      ELSE LET in_target ==
                                 validate_pages_exist(Opened(target),
                                                      Filter(in_source.value))
                           IN  IF in_target.exc # "none" THEN in_target
                               ELSE Returned(Filter(in_target.value))

\* -------------------------------------------- detect_flattened_annotations

\* The default of analyze_contours' min_area.
DefaultMinArea == 100

\* The type given to a bounding box of width w and height h, from
\* aspect_ratio = w / h.  The comparisons of the quotient with 5, 0.2, 0.8,
\* 1.2 and 2 are made on w and h: for sides of an image the float quotient
\* is on the same side of each threshold as the exact one.
ContourTypeMutant(w, h) ==
    IF 5 * w >= 4 * h /\ 5 * w <= 6 * h THEN "square/circle"
    ELSE IF w > 2 * h THEN "text/rectangle"
    ELSE IF w > 5 * h \/ 5 * w < h THEN "line/arrow"
    ELSE "rectangle/shape"
ContourType(w, h) ==
    IF w > 5 * h \/ 5 * w < h THEN "line/arrow"
    ELSE IF 5 * w >= 4 * h /\ 5 * w <= 6 * h THEN "square/circle"
    ELSE IF w > 2 * h THEN "text/rectangle"
    ELSE "rectangle/shape"

\* A contour is modelled by what the library reports of it: contourArea and
\* boundingRect (x, y, w, h).
RECURSIVE analyze_contours(_, _)
analyze_contours(cs, min_area) ==
    IF cs = <<>> THEN <<>>
    ELSE LET contour == Head(cs)
             w == contour.bbox[3]
             h == contour.bbox[4]
         IN  IF contour.area < min_area
             THEN analyze_contours(Tail(cs), min_area)
             ELSE <<[type |-> ContourType(w, h),
                     bbox |-> contour.bbox,
                     area |-> contour.area,
                     aspect_ratio |-> <<w, h>>]>>
                  \o analyze_contours(Tail(cs), min_area)

\* pdf_page_to_image: the rendering of a page, or the exception of a file
\* that does not open or of a page the PDF does not have.
pdf_page_to_image(doc, page_num) ==
    IF doc.file # "ok" \/ page_num >= Len(doc.pages) THEN Raised
    ELSE Returned(doc.pages[page_num + 1])

\* find_differences: a page image is modelled by the marks drawn on it, and
\* the contours found are the marks that only one of the two images has.
find_differences(original_img, annotated_img) ==
    LET InOriginal(mark) == \E i \in DOMAIN original_img : original_img[i] = mark
        InAnnotated(mark) == \E i \in DOMAIN annotated_img : annotated_img[i] = mark
        NotInOriginal(mark) == ~InOriginal(mark)
        NotInAnnotated(mark) == ~InAnnotated(mark)
    IN  SelectSeq(annotated_img, NotInOriginal)
        \o SelectSeq(original_img, NotInAnnotated)

\* if annotations: the analysis images of the page are written.
SavesImages(page_annotations) == page_annotations # <<>>

\* min_pages = min(orig_pages, annot_pages)
MinPagesMutant(orig_pages, annot_pages) == Max({orig_pages, annot_pages})
MinPages(orig_pages, annot_pages) == Min({orig_pages, annot_pages})

DetectStart ==
    [pages |-> <<>>, saved |-> <<>>, total_annotations |-> 0, exc |-> "none"]

\* for page_num in range(min_pages)
RECURSIVE DetectPages(_, _, _, _, _)
DetectPages(original, annotated, page_num, min_pages, st) ==
    IF page_num >= min_pages \/ st.exc # "none" THEN st
    ELSE LET original_img == pdf_page_to_image(original, page_num)
             annotated_img == pdf_page_to_image(annotated, page_num)
         IN  IF original_img.exc # "none" \/ annotated_img.exc # "none"
             THEN [st EXCEPT !.exc = "Exception"]
             ELSE LET found == analyze_contours(
                                 find_differences(original_img.value,
                                                  annotated_img.value),
                                 DefaultMinArea)
                  IN  DetectPages(original, annotated, page_num + 1, min_pages,
                        [st EXCEPT
                           !.pages = Append(@, [page_num |-> page_num,
                                                found |-> found]),
                           !.saved = IF SavesImages(found)
                                     THEN @ \o <<[page |-> page_num + 1,
                                                  image |-> "differences"],
                                                 [page |-> page_num + 1,
                                                  image |-> "threshold"]>>
                                     ELSE @,
                           !.total_annotations =
                               IF SavesImages(found) THEN @ + Len(found) ELSE @])

\* What detect_flattened_annotations printed per page, the images it saved,
\* the total of its summary (-1 when no summary is printed) and the value
\* it returned.
detect_flattened_annotations(original, annotated) ==
    IF original.file = "missing" \/ annotated.file = "missing"
    THEN [printed |-> DetectStart, summary |-> -1, returned |-> FALSE]
    ELSE IF original.file # "ok" \/ annotated.file # "ok"
    THEN [printed |-> [DetectStart EXCEPT !.exc = "Exception"],
          summary |-> -1, returned |-> FALSE]
    ELSE LET min_pages == MinPages(Len(original.pages), Len(annotated.pages))
             st == DetectPages(original, annotated, 0, min_pages, DetectStart)
         IN  IF st.exc # "none"
             THEN [printed |-> st, summary |-> -1, returned |-> FALSE]
             ELSE [printed |-> st, summary |-> st.total_annotations,
                   returned |-> st.total_annotations > 0]

\* --------------------------------------------------- ocr_annotation_detector

\* A value a dictionary may lack: span.get("color", 0), span.get("text", ""),
\* text_blocks.get("width", 595).
Missing == [given |-> FALSE, value |-> 0]
Given(v) == [given |-> TRUE, value |-> v]
GetOr(entry, default) == IF entry.given THEN entry.value ELSE default

\* Sizes are held in hundredths of a point.  round(size, 1): the nearest
\* tenth, a size halfway between two tenths going to the even one (the sizes
\* drawn that end in 5 hundredths are multiples of a quarter point, which a
\* float holds exactly).
Round1(size) ==
    LET down == size - (size % 10)
        rest == size % 10
    IN  IF rest < 5 THEN down
        ELSE IF rest > 5 THEN down + 10
        ELSE IF (down \div 10) % 2 = 0 THEN down ELSE down + 10

\* The spans of the page in reading order: for block in blocks (a block
\* without "lines" is passed over), for line in lines, for span in spans.
RECURSIVE LineSpans(_)
LineSpans(lines) ==
    IF lines = <<>> THEN <<>>
    ELSE Head(lines).spans \o LineSpans(Tail(lines))

RECURSIVE BlockSpans(_)
BlockSpans(blocks) ==
    IF blocks = <<>> THEN <<>>
    ELSE (IF Head(blocks).has_lines THEN LineSpans(Head(blocks).lines) ELSE <<>>)
         \o BlockSpans(Tail(blocks))

\* d[k] += 1 on a defaultdict(int).
Increment(d, k) ==
    IF k \in DictKeys(d) THEN DictSet(d, k, DictGet(d, k) + 1)
    ELSE DictSet(d, k, 1)

\* The three counters after the spans.
RECURSIVE CountSpans(_, _)
CountSpans(spans, st) ==
    IF spans = <<>> THEN st
    ELSE LET span == Head(spans)
         IN  CountSpans(Tail(spans),
               [fonts |-> Increment(st.fonts, span.font),
                font_sizes |-> Increment(st.font_sizes, Round1(span.size)),
                colors |-> Increment(st.colors, GetOr(span.color, 0))])

\* max(d.items(), key=lambda x: x[1])[0]: the first key with the largest
\* count.
MostCommonMutant(d) == d[1].key
MostCommon(d) ==
    d[CHOOSE i \in DOMAIN d :
        \A j \in DOMAIN d :
            /\ d[j].value <= d[i].value
            /\ j < i => d[j].value < d[i].value].key

\* The defaults of a page without spans: "unknown", 12 and 0 (black).
DefaultFont == "unknown"
DefaultSize == 1200
DefaultColor == 0

analyze_text_characteristics(blocks) ==
    LET st == CountSpans(BlockSpans(blocks.blocks),
                         [fonts |-> EmptyDict, font_sizes |-> EmptyDict,
                          colors |-> EmptyDict])
    IN  [main_font |-> IF st.fonts # EmptyDict THEN MostCommon(st.fonts)
                       ELSE DefaultFont,
         main_size |-> IF st.font_sizes # EmptyDict THEN MostCommon(st.font_sizes)
                       ELSE DefaultSize,
         main_color |-> IF st.colors # EmptyDict THEN MostCommon(st.colors)
                        ELSE DefaultColor,
         all_fonts |-> st.fonts,
         all_sizes |-> st.font_sizes,
         all_colors |-> st.colors]

\* The default page size (A4, in points) when text_blocks has none.
DefaultWidth == 595
DefaultHeight == 842

\* |a - b|
Abs(n) == IF n < 0 THEN -n ELSE n

\* in_margin: the centre of bbox = [x0, y0, x1, y1] against a tenth and nine
\* tenths of the page: (x0 + x1) / 2 < page_width * 0.1 is
\* 5 * (x0 + x1) < page_width, and so on.
InMargin(bbox, page_width, page_height) ==
    LET left_margin == 5 * (bbox[1] + bbox[3]) < page_width
        right_margin == 5 * (bbox[1] + bbox[3]) > 9 * page_width
        top_margin == 5 * (bbox[2] + bbox[4]) < page_height
        bottom_margin == 5 * (bbox[2] + bbox[4]) > 9 * page_height
    IN  left_margin \/ right_margin \/ top_margin \/ bottom_margin

\* The terms of annotation_score that apply to a span, in the order the code
\* tests them, each with its reason.
SizeTermMutant(size, main_size) ==
    IF size < main_size - 300 THEN <<[points |-> 1, reason |-> "smaller text"]>>
    ELSE IF size > main_size + 300 THEN <<[points |-> 1, reason |-> "larger text"]>>
    ELSE <<>>
SizeTerm(size, main_size) ==
    IF size < main_size - 300 THEN <<[points |-> 1, reason |-> "smaller text"]>>
    ELSE IF size > main_size + 500 THEN <<[points |-> 1, reason |-> "larger text"]>>
    ELSE <<>>

ScoreTerms(span, span_text, in_margin, traits) ==
    (IF span.font # traits.main_font
     THEN <<[points |-> 2, reason |-> "different font"]>> ELSE <<>>)
    \o (IF Abs(span.size - traits.main_size) > 200
        THEN <<[points |-> 2, reason |-> "different size"]>> ELSE <<>>)
    \o (IF GetOr(span.color, 0) # traits.main_color
        THEN <<[points |-> 3, reason |-> "different color"]>> ELSE <<>>)
    \o (IF in_margin
        THEN <<[points |-> 2, reason |-> "in margin"]>> ELSE <<>>)
    \o (IF Len(span_text) < 50
        THEN <<[points |-> 1, reason |-> "short text"]>> ELSE <<>>)
    \o SizeTerm(span.size, traits.main_size)

RECURSIVE SumPoints(_)
SumPoints(terms) ==
    IF terms = <<>> THEN 0 ELSE Head(terms).points + SumPoints(Tail(terms))

\* The body of the loop for one span: nothing for empty text or a score
\* below 3, otherwise the entry appended.
SpanEntry(span, blocks, traits) ==
    LET span_text == Strip(GetOr(span.text, <<>>))
        in_margin == InMargin(span.bbox, GetOr(blocks.width, DefaultWidth),
                              GetOr(blocks.height, DefaultHeight))
        terms == ScoreTerms(span, span_text, in_margin, traits)
        annotation_score == SumPoints(terms)
    IN  IF span_text = <<>> THEN <<>>
        ELSE IF annotation_score >= 3
        THEN <<[text |-> span_text, font |-> span.font, size |-> span.size,
                color |-> GetOr(span.color, 0), bbox |-> span.bbox,
                score |-> annotation_score,
                reasons |-> [i \in DOMAIN terms |-> terms[i].reason],
                in_margin |-> in_margin]>>
        ELSE <<>>

RECURSIVE PotentialAnnotations(_, _, _)
PotentialAnnotations(spans, blocks, traits) ==
    IF spans = <<>> THEN <<>>
    ELSE SpanEntry(Head(spans), blocks, traits)
         \o PotentialAnnotations(Tail(spans), blocks, traits)

find_potential_annotation_text(blocks, traits) ==
    PotentialAnnotations(BlockSpans(blocks.blocks), blocks, traits)

\* ------------------------------------------------------ recreate_annotations

\* AnnotationRecreator.__init__: the document opened and no annotation
\* recorded.
AnnotationRecreator(doc) == [doc |-> doc, annotations |-> <<>>]

\* The menu choices that add an annotation, and the type each records.
AddChoices == {"2", "3", "4", "5"}
AddedType(choice) ==
    CASE choice = "2" -> "text"
      [] choice = "3" -> "freetext"
      [] choice = "4" -> "rectangle"
      [] choice = "5" -> "arrow"

\* add_text_annotation, add_freetext_annotation, add_rectangle_annotation
\* and add_arrow_annotation: the annotation is put on the page of the open
\* document and recorded in self.annotations.
add_annotation(self, choice, page_num) ==
    [doc |-> [self.doc EXCEPT
                !.pages[page_num + 1] = Append(@, [type |-> AddedType(choice)])],
     annotations |-> Append(self.annotations,
                            [type |-> AddedType(choice), page |-> page_num])]

\* What interactive_mode returns for the choices that end the loop.
ChoiceReturnsMutant(choice) == choice \in {"6", "7"}
ChoiceReturns(choice) == choice = "6"

\* What can come of the prompts and the call of one round of the menu: every
\* answer is read and converts and the call succeeds; int(), float() or the
\* library raises ValueError; Ctrl-C at a prompt raises KeyboardInterrupt;
\* the input ends (EOFError); the page asked for is not in the document and
\* the library raises an error that is not a ValueError.
Outcomes == {"ok", "ValueError", "KeyboardInterrupt", "EOFError", "no such page"}

\* The exceptions that neither except clause of interactive_mode catches.
Uncaught == {"EOFError", "no such page"}

\* One pass of the while loop of interactive_mode that does not read "6" or
\* "7": the recreator and the session after it, and where control goes.
\* A ValueError is printed and the loop goes on; a KeyboardInterrupt makes
\* interactive_mode return False; any other exception leaves
\* interactive_mode and reaches the except clause of main.
Round(self, sess, outcome, added) ==
    [recreator |-> IF outcome = "ok" THEN added ELSE self,
     session |->
        CASE outcome \in {"ok", "ValueError"} ->
                [sess EXCEPT !.rounds = @ + 1]
          [] outcome = "KeyboardInterrupt" ->
                [sess EXCEPT !.rounds = @ + 1, !.ended_by = "KeyboardInterrupt",
                             !.returned = "False"]
          [] outcome \in Uncaught ->
                [sess EXCEPT !.rounds = @ + 1, !.ended_by = outcome,
                             !.returned = "raised"],
     pc |-> CASE outcome \in {"ok", "ValueError"} -> "menu"
              [] outcome = "KeyboardInterrupt" -> "returned"
              [] outcome \in Uncaught -> "except"]

\* main's sys.argv[2].
output_pdf == "output.pdf"

\* save_pdf: the open document, annotations added included, is written to
\* output_path.
save_pdf(self, sess, output_path) ==
    [sess EXCEPT !.saved = Append(@, [path |-> output_path, doc |-> self.doc])]

\* export_annotations_template: the recorded annotations are written out.
export_annotations_template(self, sess) ==
    [sess EXCEPT !.exported = Append(@, self.annotations)]

\* ------------------------------------------------------------ idle state
\* The variables of the functions a specification does not run.

IdleParse == pages_str = <<>> /\ parse_result = "none"

IdleExtract ==
    /\ src_doc = [file |-> "ok", pages |-> <<>>]
    /\ MEMORY_EFFICIENT = TRUE
    /\ annotations = "none"
    /\ std_result = "none"
    /\ mem_result = "none"

IdleDebug == debug_out = "none"

IdleValidate ==
    /\ val_doc = [opens |-> TRUE, total_pages |-> 0]
    /\ validate_result = "none"

IdleCopy ==
    /\ target_doc = [file |-> "ok", pages |-> <<>>]
    /\ BATCH_SIZE = 0
    /\ copy_out = [loop |-> CopyStart([pages |-> <<>>]), saved |-> <<>>,
                   printed |-> <<>>]
    /\ copy_std = CopyStart([pages |-> <<>>])
    /\ copy_batched = CopyStart([pages |-> <<>>])

IdleMain ==
    /\ USE_COMMAND_LINE_ARGS = FALSE
    /\ PAGES = None
    /\ argv = <<"copy_pdf_annotations.py">>
    /\ files = [path \in {SOURCE_PDF, TARGET_PDF, OUTPUT_PDF} |-> MissingDoc]
    /\ main_out = [mode |-> "none", exit |-> "none", args |-> Configuration(None)]

IdleDetect ==
    /\ contours = <<>>
    /\ contour_result = [min_area |-> DefaultMinArea, value |-> <<>>]
    /\ original_pdf = MissingDoc
    /\ annotated_pdf = MissingDoc
    /\ detect_out = [printed |-> DetectStart, summary |-> -1, returned |-> FALSE]

IdleOcr ==
    /\ text_blocks = [width |-> Missing, height |-> Missing, blocks |-> <<>>]
    /\ characteristics = analyze_text_characteristics([blocks |-> <<>>])
    /\ potential_annotations = <<>>

SessionStart ==
    [rounds |-> 0, ended_by |-> "none", returned |-> "none", saved |-> <<>>,
     exported |-> <<>>, exit |-> "none"]

IdleRecreate ==
    /\ recreator = AnnotationRecreator(MissingDoc)
    /\ session = SessionStart

IdleTools == IdleDetect /\ IdleOcr /\ IdleRecreate

\* ----------------------------------------------- specification: parsing
\* parse_page_specification applied to every string up to MaxLen.

\* "1-3,7,10-12", the module docstring's example.
DocExample == <<"1", "-", "3", ",", "7", ",", "1", "0", "-", "1", "2">>

Strings(n) == UNION {[1..k -> Alphabet] : k \in 0..n}

ParseInputs == Strings(MaxLen) \cup {DocExample}

InitParse ==
    /\ pc = "parse"
    /\ finished = {}
    /\ pages_str \in ParseInputs
    /\ parse_result = "none"
    /\ page_filter = NoFilter
    /\ IdleValidate /\ IdleExtract /\ IdleDebug /\ IdleCopy /\ IdleMain /\ IdleTools

Parse ==
    /\ pc = "parse"
    /\ parse_result' = parse_page_specification(pages_str)
    /\ pc' = "parsed"
    /\ UNCHANGED <<finished, pages_str, page_filter, validateVars, extractVars, debugVars, copyVars, mainVars, toolVars>>

NextParse == Parse

SpecParse == InitParse /\ [][NextParse]_vars

\* --------------------------------------------------- claims on parsing

\* What the documentation says of the items, read off the text: a numeral is
\* one or more digits, a single item is a numeral n >= 1, a range item is two
\* numerals a, b around one "-" with 1 <= a <= b.
IsNumeral(t) == t # <<>> /\ \A i \in 1..Len(t) : t[i] \in Digits

SingleItem(t) == IsNumeral(t) /\ DecValue(t) >= 1

RangeAt(t, k) ==
    /\ t[k] = "-"
    /\ IsNumeral(Strip(SubSeq(t, 1, k - 1)))
    /\ IsNumeral(Strip(SubSeq(t, k + 1, Len(t))))
    /\ 1 <= DecValue(Strip(SubSeq(t, 1, k - 1)))
    /\ DecValue(Strip(SubSeq(t, 1, k - 1))) <= DecValue(Strip(SubSeq(t, k + 1, Len(t))))

RangeItem(t) == \E k \in 1..Len(t) : RangeAt(t, k)

WellFormedItem(t) == SingleItem(t) \/ RangeItem(t)

\* The zero-based pages a well-formed item stands for.
Contribution(t) ==
    IF SingleItem(t) THEN {DecValue(t) - 1}
    ELSE LET k == CHOOSE k \in 1..Len(t) : RangeAt(t, k)
             a == DecValue(Strip(SubSeq(t, 1, k - 1)))
             b == DecValue(Strip(SubSeq(t, k + 1, Len(t))))
         IN  {p \in 0..b : a - 1 <= p /\ p <= b - 1}

StrippedItems(s) == [i \in DOMAIN Split(s, ",") |-> Strip(Split(s, ",")[i])]

AllWellFormed(s) ==
    /\ Strip(s) # <<>>
    /\ \A i \in DOMAIN StrippedItems(s) : WellFormedItem(StrippedItems(s)[i])

RECURSIVE Join(_, _)
Join(items, sep) ==
    IF items = <<>> THEN <<>>
    ELSE IF Len(items) = 1 THEN items[1]
    ELSE items[1] \o <<sep>> \o Join(Tail(items), sep)

Reverse(q) == [i \in 1..Len(q) |-> q[Len(q) + 1 - i]]

\* C2: a specification whose items are all well formed parses to the union of
\* the items' zero-based pages (a range a-b gives a-1..b-1, b included, a
\* single n gives n-1); the result is the same with the items in reverse
\* order and with every item repeated; "1-3,7,10-12" gives
\* {0,1,2,6,9,10,11}.
C2_ParseIsUnionOfItems ==
    (pc = "parsed" /\ AllWellFormed(pages_str)) =>
        /\ parse_result =
             Returned(UNION {Contribution(StrippedItems(pages_str)[i]) :
                               i \in DOMAIN StrippedItems(pages_str)})
        /\ parse_page_specification(
             Join(Reverse(Split(pages_str, ",")), ",")) = parse_result
        /\ parse_page_specification(
             pages_str \o <<",">> \o pages_str) = parse_result
        /\ (pages_str = DocExample =>
              parse_result = Returned({0, 1, 2, 6, 9, 10, 11}))

C2_Witness ==
    /\ pc = "parsed"
    /\ pages_str = DocExample
    /\ AllWellFormed(pages_str)
    /\ parse_result = Returned({0, 1, 2, 6, 9, 10, 11})

\* C3: an invalid specification (empty or only whitespace, or with an item
\* that is empty, not an integer, below 1, or a range with start > end)
\* raises ValueError and returns no set, whatever the other items are.
C3_InvalidRaisesValueError ==
    (pc = "parsed" /\ ~AllWellFormed(pages_str)) =>
        /\ parse_result.exc = "ValueError"
        /\ DOMAIN parse_result = {"exc", "msg"}

\* "1,2-1": a valid item followed by a range with start > end.
C3_Witness ==
    /\ pc = "parsed"
    /\ pages_str = <<"1", ",", "2", "-", "1">>
    /\ WellFormedItem(StrippedItems(pages_str)[1])
    /\ ~AllWellFormed(pages_str)
    /\ parse_result = ValueError("Invalid range")

\* --------------------------------------------- specification: validation
\* validate_pages_exist applied to every page filter and page count.

ValDocs == [opens : BOOLEAN, total_pages : 0..MaxPages]

PageFilters == {Filter(S) : S \in SUBSET (0..MaxPages)}

InitValidate ==
    /\ pc = "validate"
    /\ finished = {}
    /\ page_filter \in PageFilters
    /\ val_doc \in ValDocs
    /\ validate_result = "none"
    /\ IdleParse /\ IdleExtract /\ IdleDebug /\ IdleCopy /\ IdleMain /\ IdleTools

Validate ==
    /\ pc = "validate"
    /\ validate_result' = validate_pages_exist(val_doc, page_filter)
    /\ pc' = "validated"
    /\ UNCHANGED <<finished, page_filter, val_doc, parseVars, extractVars, debugVars, copyVars, mainVars, toolVars>>

NextValidate == Validate

SpecValidate == InitValidate /\ [][NextValidate]_vars

\* C4: on a PDF that opens, validate_pages_exist returns exactly the pages of
\* page_filter below total_pages (a subset of page_filter) when there is one,
\* and raises ValueError when there is none; it never returns the empty set.
C4_ValidateReturnsExistingPages ==
    pc = "validated" =>
        /\ validate_result.exc = "none" =>
             /\ validate_result.value # {}
             /\ validate_result.value \subseteq page_filter.pages
             /\ \A p \in 0..MaxPages :
                  p \in validate_result.value <=>
                      (p \in page_filter.pages /\ p < val_doc.total_pages)
        /\ val_doc.opens =>
             ((\A p \in page_filter.pages : p >= val_doc.total_pages) <=>
                  validate_result.exc = "ValueError")

\* A filter with a page that exists and a page past the end: the call
\* returns the existing pages only.
C4_Witness ==
    /\ pc = "validated"
    /\ val_doc.opens
    /\ \E p \in page_filter.pages : p < val_doc.total_pages
    /\ \E p \in page_filter.pages : p >= val_doc.total_pages
    /\ validate_result.exc = "none"
    /\ validate_result.value # page_filter.pages

\* --------------------------------------------- specification: extraction
\* get_non_highlight_annotations applied to source PDFs of up to MaxSrcPages
\* pages, with and without a page filter, under both settings of
\* MEMORY_EFFICIENT.

\* The annotation lists a page can have.
PageKinds == UNION {[1..k -> AnnotKinds] : k \in 0..MaxAnnots}

\* A page of a PDF: its annotations, each named by page and place.
MakePage(kinds, page_num) ==
    [i \in 1..Len(kinds) |->
        [type |-> kinds[i].type, readable |-> kinds[i].readable,
         colors |-> kinds[i].colors, border |-> kinds[i].border,
         line_ends |-> kinds[i].line_ends, raises |-> kinds[i].raises,
         content |-> <<page_num, i>>]]

\* The annotation lists of at most one annotation.
ShortPageKinds == {k \in PageKinds : Len(k) <= 1}

\* A PDF of total pages whose even pages carry the annotations first and
\* whose odd pages carry the annotations second.
MakeDoc(total, first, second) ==
    [file |-> "ok",
     pages |-> [p \in 1..total |->
                  MakePage(IF (p - 1) % 2 = 0 THEN first ELSE second, p - 1)]]


SrcDocs ==
    {MakeDoc(t, f, s) :
        t \in 0..MaxSrcPages, f \in PageKinds, s \in ShortPageKinds}
        \cup {CorruptDoc}

\* None, the empty filter, every page up to MaxSrcPages (past the end of
\* every PDF) but the k-th from the end, and the pairs of page k and the
\* k-th page from the end, for k up to MaxSkip.
ExtractFilters ==
    {NoFilter, Filter({})}
        \cup {Filter((0..MaxSrcPages) \ {MaxSrcPages - k}) : k \in 0..MaxSkip}
        \cup {Filter({k, MaxSrcPages - k}) : k \in 0..MaxSkip}

InitExtract ==
    /\ pc = "extract"
    /\ finished = {}
    /\ src_doc \in SrcDocs
    /\ page_filter \in ExtractFilters
    /\ MEMORY_EFFICIENT \in BOOLEAN
    /\ annotations = "none"
    /\ std_result = "none"
    /\ mem_result = "none"
    /\ IdleParse /\ IdleValidate /\ IdleDebug /\ IdleCopy /\ IdleMain /\ IdleTools

GetNonHighlightAnnotations ==
    /\ pc = "extract"
    /\ annotations' =
         get_non_highlight_annotations(src_doc, page_filter, MEMORY_EFFICIENT)
    /\ pc' = "extracted"
    /\ finished' = finished \cup {"get_non_highlight_annotations"}
    /\ UNCHANGED <<page_filter, src_doc, MEMORY_EFFICIENT, std_result,
                   mem_result, parseVars, validateVars, debugVars, copyVars, mainVars, toolVars>>

NextExtract == GetNonHighlightAnnotations

SpecExtract == InitExtract /\ [][NextExtract]_vars

\* ------------------------------------------------ claims on extraction

\* Two names are the same but for the case of their letters.
SameIgnoringCase(a, b) ==
    /\ Len(a) = Len(b)
    /\ \A i \in 1..Len(a) :
         \/ a[i] = b[i]
         \/ \E j \in DOMAIN UpperLetters :
              {a[i], b[i]} = {UpperLetters[j], LowerLetters[j]}

IsHighlight(annot) == SameIgnoringCase(annot.type[2], highlight)
NotHighlight(annot) == ~IsHighlight(annot)

\* The pages the extraction is to look at.
ProcessedPages(doc, filter) ==
    IF filter.given THEN {p \in filter.pages : p < Len(doc.pages)}
    ELSE 0..(Len(doc.pages) - 1)

\* No error occurs: the file opens, and every annotation whose attributes the
\* extraction reads (the non-highlight annotations of the processed pages) is
\* readable.
NoExtractionError(doc, filter) ==
    /\ doc.file = "ok"
    /\ \A p \in ProcessedPages(doc, filter) :
         \A i \in DOMAIN doc.pages[p + 1] :
            NotHighlight(doc.pages[p + 1][i]) => doc.pages[p + 1][i].readable

\* list is the non-highlight annotations of page p of doc, in the page's
\* order.
IsNonHighlightListOf(list, doc, p) ==
    LET want == SelectSeq(doc.pages[p + 1], NotHighlight)
    IN  /\ Len(list) = Len(want)
        /\ \A i \in 1..Len(want) :
             /\ list[i].content = want[i].content
             /\ list[i].type = want[i].type

\* C1: when no error occurs, get_non_highlight_annotations returns exactly
\* the mapping from each processed page (every page with no filter, the
\* filter's pages below total_pages otherwise) that has a non-highlight
\* annotation to the list of its non-highlight annotations, in the page's
\* order: no highlight (whatever the case of its type name) is in the result,
\* no non-highlight annotation of a processed page is missing, no key has an
\* empty list and no unprocessed page has a key.
C1_ExtractsExactlyNonHighlights ==
    (pc = "extracted" /\ NoExtractionError(src_doc, page_filter)) =>
        /\ DictKeys(annotations) =
             {p \in ProcessedPages(src_doc, page_filter) :
                \E i \in DOMAIN src_doc.pages[p + 1] :
                   NotHighlight(src_doc.pages[p + 1][i])}
        /\ Cardinality(DictKeys(annotations)) = Len(annotations)
        /\ \A k \in DOMAIN annotations :
             /\ annotations[k].value # <<>>
             /\ IsNonHighlightListOf(annotations[k].value, src_doc,
                                     annotations[k].key)
             /\ \A i \in DOMAIN annotations[k].value :
                  ~SameIgnoringCase(annotations[k].value[i].type[2], highlight)

\* A filter with a page past the end, on a PDF where a processed page holds a
\* highlight first and a non-highlight after it, another processed page holds
\* no non-highlight annotation, and a page the filter leaves out holds one.
C1_Witness ==
    /\ pc = "extracted"
    /\ NoExtractionError(src_doc, page_filter)
    /\ page_filter.given
    /\ \E p \in page_filter.pages : p >= Len(src_doc.pages)
    /\ \E p \in ProcessedPages(src_doc, page_filter) :
         /\ Len(src_doc.pages[p + 1]) = 2
         /\ IsHighlight(src_doc.pages[p + 1][1])
         /\ NotHighlight(src_doc.pages[p + 1][2])
         /\ p \in DictKeys(annotations)
    /\ \E p \in ProcessedPages(src_doc, page_filter) :
         /\ src_doc.pages[p + 1] # <<>>
         /\ p \notin DictKeys(annotations)
    /\ \E p \in (0..(Len(src_doc.pages) - 1)) \ page_filter.pages :
         \E i \in DOMAIN src_doc.pages[p + 1] :
            NotHighlight(src_doc.pages[p + 1][i])
    /\ Len(annotations) >= 2

\* ------------------------- specification: the two extractions side by side
\* _get_annotations_standard and then _get_annotations_memory_efficient
\* applied to the same PDF and page filter.

InitEquiv ==
    /\ pc = "compare"
    /\ finished = {}
    /\ src_doc \in SrcDocs
    /\ page_filter \in ExtractFilters
    /\ MEMORY_EFFICIENT = TRUE
    /\ annotations = "none"
    /\ std_result = "none"
    /\ mem_result = "none"
    /\ IdleParse /\ IdleValidate /\ IdleDebug /\ IdleCopy /\ IdleMain /\ IdleTools

RunStandard ==
    /\ pc = "compare"
    /\ finished = {}
    /\ finished' = finished \cup {"_get_annotations_standard"}
    /\ std_result' = _get_annotations_standard(src_doc, page_filter)
    /\ UNCHANGED <<pc, page_filter, src_doc, MEMORY_EFFICIENT, annotations,
                   mem_result, parseVars, validateVars, debugVars, copyVars, mainVars, toolVars>>

RunMemoryEfficient ==
    /\ pc = "compare"
    /\ finished = {"_get_annotations_standard"}
    /\ finished' = finished \cup {"_get_annotations_memory_efficient"}
    /\ mem_result' = _get_annotations_memory_efficient(src_doc, page_filter)
    /\ UNCHANGED <<pc, page_filter, src_doc, MEMORY_EFFICIENT, annotations,
                   std_result, parseVars, validateVars, debugVars, copyVars, mainVars, toolVars>>

NextEquiv == RunStandard \/ RunMemoryEfficient

SpecEquiv == InitEquiv /\ [][NextEquiv]_vars

\* C6: on every PDF and page filter the memory-efficient extraction and the
\* standard extraction return the same dictionary: the same pages in the same
\* order with the same annotation lists, and the empty dictionary alike when
\* reading fails.
C6_MemoryEfficientEqualsStandard ==
    finished = {"_get_annotations_standard", "_get_annotations_memory_efficient"}
        => mem_result = std_result

\* Nine pages to process, so batches of two pages and a last batch of one,
\* with annotations found on the last page.
C6_Witness ==
    /\ finished = {"_get_annotations_standard", "_get_annotations_memory_efficient"}
    /\ page_filter.given
    /\ Cardinality(ProcessedPages(src_doc, page_filter)) = 9
    /\ BatchSize(9) = 2
    /\ mem_result = std_result
    /\ Len(mem_result) >= 2
    /\ mem_result[Len(mem_result)].key = Max(ProcessedPages(src_doc, page_filter))

\* ------------------- specification: the debug tool and the copy utility
\* debug_pdf_annotations and get_non_highlight_annotations (page_filter
\* None) run on the same PDF, in either order.

InitDebug ==
    /\ pc = "extract"
    /\ finished = {}
    /\ src_doc \in SrcDocs \cup {MissingDoc}
    /\ page_filter = NoFilter
    /\ MEMORY_EFFICIENT \in BOOLEAN
    /\ annotations = "none"
    /\ std_result = "none"
    /\ mem_result = "none"
    /\ debug_out = "none"
    /\ IdleParse /\ IdleValidate /\ IdleCopy /\ IdleMain /\ IdleTools

DebugPdfAnnotations ==
    /\ "debug_pdf_annotations" \notin finished
    /\ finished' = finished \cup {"debug_pdf_annotations"}
    /\ debug_out' = debug_pdf_annotations(src_doc)
    /\ UNCHANGED <<pc, page_filter, parseVars, validateVars, extractVars, copyVars, mainVars, toolVars>>

NextDebug == DebugPdfAnnotations \/ GetNonHighlightAnnotations

SpecDebug == InitDebug /\ [][NextDebug]_vars

\* ---------------------------------------------- claims on the debug tool

BothToolsRan ==
    finished = {"debug_pdf_annotations", "get_non_highlight_annotations"}

\* The places (page, index) of the annotations of a PDF.
AnnotPlaces(doc) ==
    {<<p, i>> : p \in 0..(Len(doc.pages) - 1), i \in 1..MaxAnnots}
        \cap UNION {{<<p, i>> : i \in DOMAIN doc.pages[p + 1]} :
                      p \in 0..(Len(doc.pages) - 1)}

\* The debug tool printed this verdict for the annotation at place.
Labelled(place, verdict) ==
    \E k \in DOMAIN debug_out.printed.verdicts :
        /\ debug_out.printed.verdicts[k].page_num = place[1]
        /\ debug_out.printed.verdicts[k].content = place
        /\ debug_out.printed.verdicts[k].verdict = verdict

\* The copy utility's extraction returned the annotation at place.
InResult(place) ==
    \E k \in DOMAIN annotations :
        /\ annotations[k].key = place[1]
        /\ \E j \in DOMAIN annotations[k].value :
              annotations[k].value[j].content = place

\* Neither tool hits a read error: the file opens and every annotation is
\* readable.
AllReadable(doc) ==
    /\ doc.file = "ok"
    /\ \A p \in DOMAIN doc.pages : \A i \in DOMAIN doc.pages[p] :
          doc.pages[p][i].readable

DebugRan == "debug_pdf_annotations" \in finished

\* The sum of the numbers f[i] for i in 1..n.
RECURSIVE SumTo(_, _)
SumTo(f, n) == IF n = 0 THEN 0 ELSE f[n] + SumTo(f, n - 1)

\* The annotations of the PDF, highlights included.
AnnotCount(doc) ==
    SumTo([p \in DOMAIN doc.pages |-> Len(doc.pages[p])], Len(doc.pages))

\* The total printed for a page; a page without annotations has none printed.
PrintedPageTotal(p) ==
    LET lines == debug_out.printed.page_totals
        at == {k \in DOMAIN lines : lines[k].page_num = p}
    IN  IF at = {} THEN 0 ELSE lines[CHOOSE k \in at : TRUE].total

\* C11: when the file is read without error the total in the summary is the
\* number of annotations of all pages, highlights included, is the sum of
\* the totals printed for the pages and is the sum of the counts per type,
\* and the value returned is True exactly when that total is above 0; when
\* the file does not exist or reading fails the value returned is False.
C11_TotalCountsEveryAnnotation ==
    DebugRan =>
        IF AllReadable(src_doc)
        THEN LET summary == debug_out.summary
                 totals == debug_out.printed.page_totals
             IN  /\ summary.total = AnnotCount(src_doc)
                 /\ summary.total =
                      SumTo([k \in DOMAIN totals |-> totals[k].total], Len(totals))
                 /\ \A p \in 0..(Len(src_doc.pages) - 1) :
                      PrintedPageTotal(p) = Len(src_doc.pages[p + 1])
                 /\ summary.total =
                      SumTo([k \in DOMAIN summary.types |-> summary.types[k].value],
                            Len(summary.types))
                 /\ debug_out.returned <=> summary.total > 0
        ELSE debug_out.returned = FALSE

\* A PDF read without error in which a type occurs twice, with highlights
\* and other annotations on more than one page.
C11_Witness ==
    /\ DebugRan
    /\ AllReadable(src_doc)
    /\ debug_out.returned
    /\ Len(debug_out.printed.page_totals) >= 2
    /\ \E k \in DOMAIN debug_out.summary.types :
          /\ debug_out.summary.types[k].value >= 2
          /\ debug_out.summary.types[k].key = HighlightType[2]
    /\ debug_out.summary.non_highlight > 0

\* ------------------------------------------------ specification: copying
\* copy_annotations_to_pdf applied to extracted annotations on pages up to
\* MaxPages - 1, targets of up to MaxPages - 1 pages and BATCH_SIZE up to
\* MaxBatch.

\* The annotations copied: a text annotation and a shape, with the library
\* call that raises when each is created again.
CopyKinds ==
    {AnnotOfType(TextType, TRUE, "none"),
     AnnotOfType(TextType, TRUE, "add_annotation"),
     AnnotOfType(TextType, TRUE, "set_fontsize"),
     AnnotOfType(SquareType, TRUE, "set_fontsize"),
     AnnotOfType(SquareType, TRUE, "update")}

CopyLists == UNION {[1..k -> CopyKinds] : k \in 1..MaxAnnots}
ShortCopyLists ==
    [1..1 -> {AnnotOfType(TextType, TRUE, "none"),
              AnnotOfType(SquareType, TRUE, "update")}]

\* The extracted data of a page's annotations.
ExtractedList(kinds, page_num) ==
    [i \in 1..Len(kinds) |->
        _extract_annotation_data(MakePage(kinds, page_num)[i], kinds[i].type[2])]

\* The dictionary an extraction returns: the pages of keys in ascending
\* order, even pages with the annotations first, odd pages with second.
ExtractedDict(keys, first, second) ==
    [k \in 1..Cardinality(keys) |->
        [key |-> Sorted(keys)[k],
         value |-> ExtractedList(IF Sorted(keys)[k] % 2 = 0 THEN first ELSE second,
                                 Sorted(keys)[k])]]

CopyInputs ==
    {ExtractedDict(keys, f, s) :
        keys \in (SUBSET (0..(MaxPages - 1))) \ {{}},
        f \in CopyLists, s \in ShortCopyLists}

\* A target PDF without annotations, or one that does not open.
TargetDocs ==
    {[file |-> "ok", pages |-> [p \in 1..n |-> <<>>]] : n \in 0..(MaxPages - 1)}
        \cup {CorruptDoc}

InitCopy ==
    /\ pc = "copy"
    /\ finished = {}
    /\ page_filter = NoFilter
    /\ annotations \in CopyInputs
    /\ target_doc \in TargetDocs
    /\ BATCH_SIZE \in 0..MaxBatch
    /\ copy_out = [loop |-> CopyStart([pages |-> <<>>]), saved |-> <<>>,
                   printed |-> <<>>]
    /\ copy_std = CopyStart([pages |-> <<>>])
    /\ copy_batched = CopyStart([pages |-> <<>>])
    /\ src_doc = [file |-> "ok", pages |-> <<>>]
    /\ MEMORY_EFFICIENT = TRUE
    /\ std_result = "none"
    /\ mem_result = "none"
    /\ IdleParse /\ IdleValidate /\ IdleDebug /\ IdleMain /\ IdleTools

\* copy_annotations_to_pdf, from fitz.open to the end of the loop.
CopyAnnotations ==
    /\ pc = "copy"
    /\ LET r == CopyLoop(target_doc, annotations, BATCH_SIZE)
       IN  IF r.exc # "none"
           THEN /\ pc' = "copy_failed"
                /\ copy_out' = [copy_out EXCEPT
                                  !.printed = Append(@, "Error processing target PDF")]
           ELSE /\ pc' = "save"
                /\ copy_out' = [copy_out EXCEPT !.loop = r.value]
    /\ UNCHANGED <<finished, page_filter, parseVars, validateVars, extractVars,
                   debugVars, target_doc, BATCH_SIZE, copy_std, copy_batched, mainVars, toolVars>>

\* doc.save(output_path), doc.close() and the final message.
SaveDocument ==
    /\ pc = "save"
    /\ copy_out' = [copy_out EXCEPT
                      !.saved = Append(@, copy_out.loop.pages),
                      !.printed = Append(@, copy_out.loop.total_copied)]
    /\ pc' = "copied"
    /\ finished' = finished \cup {"copy_annotations_to_pdf"}
    /\ UNCHANGED <<page_filter, parseVars, validateVars, extractVars,
                   debugVars, target_doc, BATCH_SIZE, copy_std, copy_batched, mainVars, toolVars>>

NextCopy == CopyAnnotations \/ SaveDocument

SpecCopy == InitCopy /\ [][NextCopy]_vars

\* The places of the extracted annotations: <<k, i>> is the i-th annotation
\* of the k-th page of the dictionary.
RecordedAt ==
    UNION {{<<k, i>> : i \in 1..Len(annotations[k].value)} :
             k \in 1..Len(annotations)}

RecordedPage(ki) == annotations[ki[1]].key
RecordedData(ki) == annotations[ki[1]].value[ki[2]]

\* Extraction order.
RecordedBefore(a, b) == a[1] < b[1] \/ (a[1] = b[1] /\ a[2] < b[2])

OnTargetPage(ki) == RecordedPage(ki) < Len(target_doc.pages)

\* The calls of _copy_single_annotation for the annotation at ki.
AttemptsOf(st, ki) ==
    {n \in 1..Len(st.attempts) :
        st.attempts[n].content = RecordedData(ki).content}

\* The pages of the document that hold a copy of the annotation at ki.
PlacedOn(pages, ki) ==
    {p \in 0..(Len(pages) - 1) :
        \E j \in 1..Len(pages[p + 1]) :
            pages[p + 1][j].content = RecordedData(ki).content}

Succeeded(st) == {n \in 1..Len(st.attempts) : st.attempts[n].returned}

\* C5: once copy_annotations_to_pdf has run on a target that opens, every
\* extracted annotation recorded on a page p the target has was attempted
\* exactly once, on page p, and the attempts follow extraction order; an
\* annotation recorded on a page the target lacks was never attempted and is
\* on no page; the document was saved once, with what the loop did to it, and
\* the count printed is the number of attempts that returned True.
C5_CopiesToSamePagesThenSaves ==
    pc = "copied" =>
        LET st == copy_out.loop
        IN  /\ \A ki \in RecordedAt :
                 IF OnTargetPage(ki)
                 THEN /\ Cardinality(AttemptsOf(st, ki)) = 1
                      /\ \A n \in AttemptsOf(st, ki) :
                            st.attempts[n].page_num = RecordedPage(ki)
                      /\ PlacedOn(st.pages, ki) \subseteq {RecordedPage(ki)}
                 ELSE /\ AttemptsOf(st, ki) = {}
                      /\ PlacedOn(st.pages, ki) = {}
            /\ Len(st.attempts) = Cardinality({ki \in RecordedAt : OnTargetPage(ki)})
            /\ \A a, b \in RecordedAt :
                 OnTargetPage(a) /\ OnTargetPage(b) /\ RecordedBefore(a, b) =>
                     \A n \in AttemptsOf(st, a), m \in AttemptsOf(st, b) : n < m
            /\ copy_out.saved = <<st.pages>>
            /\ copy_out.printed = <<Cardinality(Succeeded(st))>>

\* A copy that attempted annotations on two pages, skipped a page the target
\* lacks, and had both a creation that succeeded and one that failed.
C5_Witness ==
    /\ pc = "copied"
    /\ \E ki \in RecordedAt : ~OnTargetPage(ki)
    /\ \E a, b \in RecordedAt :
          /\ OnTargetPage(a) /\ OnTargetPage(b)
          /\ RecordedPage(a) # RecordedPage(b)
    /\ Succeeded(copy_out.loop) # {}
    /\ Cardinality(Succeeded(copy_out.loop)) < Len(copy_out.loop.attempts)

\* Every step of creating the annotation succeeded: no call made for it is
\* the call that raises.
AllStepsSucceed(annot_data) ==
    LET calls == CopyCalls(annot_data)
    IN  \A i \in 1..Len(calls) : calls[i] # annot_data.raises

\* C8: an attempt returned True exactly when every step of creating the
\* annotation succeeded, and then the annotation is on the page with all its
\* calls made; an attempt with a failing step returned False, and every
\* annotation after it on a page the target has was still attempted; the only
\* way copy_annotations_to_pdf ends without saving is a target that does not
\* open, and otherwise the output is saved.
C8_FailureIsReturnedNotRaised ==
    /\ pc = "copy_failed" => target_doc.file # "ok"
    /\ pc = "save" => ENABLED SaveDocument
    /\ pc \in {"save", "copied"} =>
        LET st == copy_out.loop
        IN  \A n \in 1..Len(st.attempts) :
              \E ki \in RecordedAt :
                LET annot_data == RecordedData(ki)
                    page == st.pages[RecordedPage(ki) + 1]
                IN  /\ st.attempts[n].content = annot_data.content
                    /\ st.attempts[n].returned = AllStepsSucceed(annot_data)
                    /\ st.attempts[n].returned =>
                          \E j \in 1..Len(page) :
                              /\ page[j].content = annot_data.content
                              /\ page[j].calls = CopyCalls(annot_data)
                    /\ ~st.attempts[n].returned =>
                          \A later \in RecordedAt :
                              OnTargetPage(later) /\ RecordedBefore(ki, later) =>
                                  \E m \in AttemptsOf(st, later) : m > n
    /\ pc = "copied" => Len(copy_out.saved) = 1

\* A saved copy in which a creation failed and a later one succeeded, the
\* later one for an annotation whose raising call is never made.
C8_Witness ==
    /\ pc = "copied"
    /\ Len(copy_out.saved) = 1
    /\ \E a, b \in RecordedAt :
          /\ RecordedBefore(a, b)
          /\ RecordedData(b).raises # "none"
          /\ \E n \in AttemptsOf(copy_out.loop, a),
                m \in AttemptsOf(copy_out.loop, b) :
                /\ ~copy_out.loop.attempts[n].returned
                /\ copy_out.loop.attempts[m].returned

\* ---------------------------- specification: the two copy loops side by side
\* The standard loop and then _copy_annotations_batched applied to the same
\* target document and annotations, for BATCH_SIZE from 1 to MaxBatch.

InitCopyEquiv ==
    /\ pc = "compare"
    /\ finished = {}
    /\ page_filter = NoFilter
    /\ annotations \in CopyInputs
    /\ target_doc \in TargetDocs \ {CorruptDoc}
    /\ BATCH_SIZE \in 1..MaxBatch
    /\ copy_out = [loop |-> CopyStart([pages |-> <<>>]), saved |-> <<>>,
                   printed |-> <<>>]
    /\ copy_std = CopyStart([pages |-> <<>>])
    /\ copy_batched = CopyStart([pages |-> <<>>])
    /\ src_doc = [file |-> "ok", pages |-> <<>>]
    /\ MEMORY_EFFICIENT = TRUE
    /\ std_result = "none"
    /\ mem_result = "none"
    /\ IdleParse /\ IdleValidate /\ IdleDebug /\ IdleMain /\ IdleTools

RunStandardCopy ==
    /\ pc = "compare"
    /\ finished = {}
    /\ finished' = {"standard copy"}
    /\ copy_std' = StandardCopy(CopyStart(target_doc), annotations)
    /\ UNCHANGED <<pc, page_filter, parseVars, validateVars, extractVars,
                   debugVars, target_doc, BATCH_SIZE, copy_out, copy_batched, mainVars, toolVars>>

RunBatchedCopy ==
    /\ pc = "compare"
    /\ finished = {"standard copy"}
    /\ finished' = {"standard copy", "_copy_annotations_batched"}
    /\ copy_batched' =
         _copy_annotations_batched(target_doc, annotations, BATCH_SIZE)
    /\ UNCHANGED <<pc, page_filter, parseVars, validateVars, extractVars,
                   debugVars, target_doc, BATCH_SIZE, copy_out, copy_std, mainVars, toolVars>>

NextCopyEquiv == RunStandardCopy \/ RunBatchedCopy

SpecCopyEquiv == InitCopyEquiv /\ [][NextCopyEquiv]_vars

BothCopiesRan == finished = {"standard copy", "_copy_annotations_batched"}

\* C7: on the same target document and the same annotations_by_page, for
\* every BATCH_SIZE from 1 up, _copy_annotations_batched makes the same
\* attempts in the same order on the same pages with the same results as the
\* standard loop, skips the same annotations, returns the same total_copied
\* and leaves the same document.
C7_BatchedCopyEqualsStandard ==
    BothCopiesRan =>
        /\ copy_batched.attempts = copy_std.attempts
        /\ copy_batched.skipped = copy_std.skipped
        /\ copy_batched.total_copied = copy_std.total_copied
        /\ copy_batched.pages = copy_std.pages

\* Both loops ran on annotations that copy_annotations_to_pdf would batch,
\* the last batch a short one, with an annotation skipped and one copied.
C7_Witness ==
    /\ BothCopiesRan
    /\ UsesBatching(annotations, BATCH_SIZE)
    /\ TotalAnnotations(annotations) % BATCH_SIZE # 0
    /\ copy_batched.skipped # <<>>
    /\ copy_batched.total_copied > 0
    /\ Len(copy_batched.attempts) > BATCH_SIZE

\* ---------------------------------------------------- specification: main
\* main run with either setting of USE_COMMAND_LINE_ARGS, with and without
\* command-line arguments, over a small file system.

\* A page with a note and a highlight, a page with a shape.
NotePage == <<AnnotOfType(TextType, TRUE, "none"),
              AnnotOfType(HighlightType, TRUE, "none")>>
ShapePage == <<AnnotOfType(SquareType, TRUE, "none")>>
HighlightPage == <<AnnotOfType(HighlightType, TRUE, "none")>>

Blank(n) == [file |-> "ok", pages |-> [p \in 1..n |-> <<>>]]

\* The files at the configured source and target paths.
ConfiguredSources ==
    {MakeDoc(2, NotePage, ShapePage), MakeDoc(1, HighlightPage, <<>>),
     CorruptDoc, MissingDoc}
ConfiguredTargets == {Blank(1), Blank(3), MissingDoc}

Paths == {SOURCE_PDF, TARGET_PDF, OUTPUT_PDF, "a.pdf", "b.pdf", "c.pdf"}

FileSystems ==
    {[path \in Paths |->
        CASE path = SOURCE_PDF -> s
          [] path = TARGET_PDF -> t
          [] path = "a.pdf" -> MakeDoc(3, ShapePage, NotePage)
          [] path = "b.pdf" -> Blank(3)
          [] OTHER -> MissingDoc] :
        s \in ConfiguredSources, t \in ConfiguredTargets}

PageSpecs == {"1", "2-3", "9", "3-2"}

CommandLines ==
    {<<>>, <<"a.pdf">>, <<"a.pdf", "b.pdf", "c.pdf">>,
     <<"a.pdf", "b.pdf", "c.pdf", "--pages">>}
        \cup {<<"a.pdf", "b.pdf", "c.pdf", "--pages", s>> : s \in PageSpecs}
        \cup {<<"-p", s, "a.pdf", "b.pdf", "c.pdf">> : s \in PageSpecs}

InitMain ==
    /\ pc = "main"
    /\ finished = {}
    /\ USE_COMMAND_LINE_ARGS \in BOOLEAN
    /\ argv \in {<<"copy_pdf_annotations.py">> \o line : line \in CommandLines}
    /\ PAGES \in {None, Str("")} \cup {Str(s) : s \in PageSpecs}
    /\ files \in FileSystems
    /\ main_out = [mode |-> "none", exit |-> "none", args |-> Configuration(None)]
    /\ page_filter = NoFilter
    /\ src_doc = [file |-> "ok", pages |-> <<>>]
    /\ MEMORY_EFFICIENT \in BOOLEAN
    /\ annotations = "none"
    /\ std_result = "none"
    /\ mem_result = "none"
    /\ target_doc = [file |-> "ok", pages |-> <<>>]
    /\ BATCH_SIZE \in {0, MaxBatch}
    /\ copy_out = [loop |-> CopyStart([pages |-> <<>>]), saved |-> <<>>,
                   printed |-> <<>>]
    /\ copy_std = CopyStart([pages |-> <<>>])
    /\ copy_batched = CopyStart([pages |-> <<>>])
    /\ IdleParse /\ IdleValidate /\ IdleDebug /\ IdleTools

Exit(status) ==
    /\ pc' = "exit"
    /\ main_out' = [main_out EXCEPT !.exit = status]

\* main, lines 557-574: where the four values come from.
SelectInputs ==
    /\ pc = "main"
    /\ IF UsesCommandLine(USE_COMMAND_LINE_ARGS, argv)
       THEN LET r == parse_command_line_args(argv)
            IN  IF r.exc # "none"
                THEN /\ pc' = "exit"
                     /\ main_out' = [main_out EXCEPT !.mode = "command line",
                                                     !.exit = "2"]
                ELSE /\ pc' = "check files"
                     /\ main_out' = [main_out EXCEPT !.mode = "command line",
                                                     !.args = r.value]
       ELSE /\ pc' = "check files"
            /\ main_out' = [main_out EXCEPT !.mode = "configuration",
                                            !.args = Configuration(PAGES)]
    /\ UNCHANGED <<finished, page_filter, parseVars, validateVars, extractVars,
                   debugVars, toolVars, copyVars, USE_COMMAND_LINE_ARGS, argv, PAGES, files>>

\* main, lines 576-589: both input files must exist.
CheckInputFiles ==
    /\ pc = "check files"
    /\ IF files[main_out.args.source_pdf].file = "missing"
          \/ files[main_out.args.target_pdf].file = "missing"
       THEN Exit("1")
       ELSE pc' = "page filter" /\ UNCHANGED main_out
    /\ UNCHANGED <<finished, page_filter, parseVars, validateVars, extractVars,
                   debugVars, toolVars, copyVars, USE_COMMAND_LINE_ARGS, argv, PAGES, files>>

\* main, lines 591-604: a ValueError ends the run with status 1; the
\* FileNotFoundError of validate_pages_exist is not caught.
ParseAndValidatePages ==
    /\ pc = "page filter"
    /\ LET r == MainPageFilter(main_out.args.pages_spec,
                               files[main_out.args.source_pdf],
                               files[main_out.args.target_pdf])
       IN  CASE r.exc = "none" ->
                  /\ page_filter' = r.value
                  /\ pc' = "extract"
                  /\ UNCHANGED main_out
             [] r.exc = "ValueError" -> Exit("1") /\ UNCHANGED page_filter
             [] OTHER -> Exit("traceback") /\ UNCHANGED page_filter
    /\ UNCHANGED <<finished, parseVars, validateVars, extractVars,
                   debugVars, toolVars, copyVars, USE_COMMAND_LINE_ARGS, argv, PAGES, files>>

\* main, lines 606-621: the extraction; nothing found ends the run.
ExtractAnnotations ==
    /\ pc = "extract"
    /\ LET found == get_non_highlight_annotations(
                        files[main_out.args.source_pdf], page_filter,
                        MEMORY_EFFICIENT)
       IN  /\ annotations' = found
           /\ IF found = EmptyDict THEN Exit("0")
              ELSE pc' = "copy" /\ UNCHANGED main_out
    /\ finished' = finished \cup {"get_non_highlight_annotations"}
    /\ UNCHANGED <<page_filter, parseVars, validateVars, src_doc,
                   MEMORY_EFFICIENT, std_result, mem_result, debugVars, toolVars,
                   copyVars, USE_COMMAND_LINE_ARGS, argv, PAGES, files>>

\* main, lines 623-624: copy_annotations_to_pdf, which writes the output
\* file unless the target does not open.
CopyToTarget ==
    /\ pc = "copy"
    /\ LET r == CopyLoop(files[main_out.args.target_pdf], annotations, BATCH_SIZE)
       IN  IF r.exc # "none"
           THEN /\ copy_out' = [copy_out EXCEPT
                                  !.printed = Append(@, "Error processing target PDF")]
                /\ UNCHANGED files
           ELSE /\ copy_out' = [loop |-> r.value,
                                saved |-> Append(copy_out.saved, r.value.pages),
                                printed |-> Append(copy_out.printed,
                                                   r.value.total_copied)]
                /\ files' = [files EXCEPT ![main_out.args.output_pdf] =
                                [file |-> "ok", pages |-> r.value.pages]]
    /\ pc' = "done"
    /\ finished' = finished \cup {"copy_annotations_to_pdf"}
    /\ UNCHANGED <<page_filter, parseVars, validateVars, extractVars, debugVars, toolVars,
                   target_doc, BATCH_SIZE, copy_std, copy_batched, main_out,
                   USE_COMMAND_LINE_ARGS, argv, PAGES>>

NextMain ==
    \/ SelectInputs
    \/ CheckInputFiles
    \/ ParseAndValidatePages
    \/ ExtractAnnotations
    \/ CopyToTarget

SpecMain == InitMain /\ [][NextMain]_vars

\* The arguments given after the script's name.
GivenArguments == Len(argv) - 1

\* The values are those written on the command line: the three paths are
\* arguments in that order, and the pages are the value of a --pages or -p
\* option, or None when there is no such option.
TakenFromCommandLine(args) ==
    /\ \E i, j, k \in 2..Len(argv) :
          /\ i < j /\ j < k
          /\ argv[i] = args.source_pdf
          /\ argv[j] = args.target_pdf
          /\ argv[k] = args.output_pdf
    /\ IF args.pages_spec.given
       THEN \E i \in 2..(Len(argv) - 1) :
               argv[i] \in PageOptions /\ argv[i + 1] = args.pages_spec.str
       ELSE \A i \in 2..Len(argv) : argv[i] \notin PageOptions

\* Every page of the source that has a non-highlight annotation is in the
\* extraction's result, with all its non-highlight annotations.
AllPagesProcessed(doc) ==
    \A p \in 0..(Len(doc.pages) - 1) :
        SelectSeq(doc.pages[p + 1], NotHighlight) # <<>> =>
            /\ p \in DictKeys(annotations)
            /\ IsNonHighlightListOf(DictGet(annotations, p), doc, p)

\* C9: main reads the command line exactly when USE_COMMAND_LINE_ARGS is
\* True and at least one argument is given, and then its four values are
\* those of the command line; when USE_COMMAND_LINE_ARGS is False it uses
\* SOURCE_PDF, TARGET_PDF, OUTPUT_PDF and PAGES whatever the arguments; and
\* with PAGES = None there is no page filter and every page of the source is
\* processed.
C9_InputsFromCommandLineOnlyWhenEnabled ==
    pc # "main" =>
        /\ main_out.mode = "command line"
              <=> (USE_COMMAND_LINE_ARGS /\ GivenArguments >= 1)
        /\ main_out.mode = "command line" /\ main_out.exit # "2" =>
              TakenFromCommandLine(main_out.args)
        /\ ~USE_COMMAND_LINE_ARGS =>
              /\ main_out.mode = "configuration"
              /\ main_out.args.source_pdf = SOURCE_PDF
              /\ main_out.args.target_pdf = TARGET_PDF
              /\ main_out.args.output_pdf = OUTPUT_PDF
              /\ main_out.args.pages_spec = PAGES
        /\ main_out.mode = "configuration" /\ PAGES = None =>
              /\ page_filter = NoFilter
              /\ ("get_non_highlight_annotations" \in finished
                    /\ files[SOURCE_PDF].file = "ok")
                    => AllPagesProcessed(files[SOURCE_PDF])

\* A finished run with USE_COMMAND_LINE_ARGS False, arguments given all the
\* same, and PAGES = None, which copied from both pages of the configured
\* source and wrote the configured output.
C9_Witness ==
    /\ pc = "done"
    /\ ~USE_COMMAND_LINE_ARGS
    /\ GivenArguments >= 3
    /\ PAGES = None
    /\ DictKeys(annotations) = {0, 1}
    /\ files[OUTPUT_PDF].file = "ok"
    /\ files["c.pdf"].file = "missing"

\* ---------------------------------------- specification: analyze_contours
\* analyze_contours applied to lists of contours whose bounding boxes have
\* sides 10 .. 10 * MaxRatio and whose areas lie around min_area.

Sides == {10 * k : k \in 1..MaxRatio}

\* A contour at (x, y): its area is at most that of its bounding box.
ContoursAt(x, y, areas) ==
    {[area |-> a, bbox |-> <<x, y, w, h>>] :
        a \in areas, w \in Sides, h \in Sides} \cap
    {c \in [area : areas, bbox : {x} \X {y} \X Sides \X Sides] :
        c.area <= c.bbox[3] * c.bbox[4]}

AreasAround(min_area) == {min_area - 1, min_area, min_area + 1}

\* Two contours to put before and after: one too small, one a wide box.
Fillers(x) ==
    {[area |-> 0, bbox |-> <<x, 0, 10, 10>>],
     [area |-> 2 * DefaultMinArea, bbox |-> <<x, 0, 30, 10>>]}

FillerLists(x) == UNION {[1..n -> Fillers(x)] : n \in 0..MaxFill}

ContourLists ==
    {before \o <<c>> \o after :
        before \in FillerLists(0),
        c \in ContoursAt(1, 1, AreasAround(DefaultMinArea) \cup AreasAround(50)),
        after \in FillerLists(2)}

InitContours ==
    /\ pc = "analyze_contours"
    /\ finished = {}
    /\ page_filter = NoFilter
    /\ contours \in ContourLists
    /\ contour_result = [min_area |-> DefaultMinArea, value |-> <<>>]
    /\ original_pdf = MissingDoc
    /\ annotated_pdf = MissingDoc
    /\ detect_out = [printed |-> DetectStart, summary |-> -1, returned |-> FALSE]
    /\ IdleParse /\ IdleValidate /\ IdleExtract /\ IdleDebug /\ IdleCopy /\ IdleMain
    /\ IdleOcr /\ IdleRecreate

\* analyze_contours(contours) and analyze_contours(contours, min_area).
AnalyzeContours ==
    /\ pc = "analyze_contours"
    /\ \E min_area \in {DefaultMinArea, 50} :
          contour_result' = [min_area |-> min_area,
                             value |-> analyze_contours(contours, min_area)]
    /\ pc' = "returned"
    /\ UNCHANGED <<finished, page_filter, parseVars, validateVars, extractVars,
                   debugVars, copyVars, mainVars, recreateVars, ocrVars, contours, original_pdf,
                   annotated_pdf, detect_out>>

NextContours == AnalyzeContours

SpecContours == InitContours /\ [][NextContours]_vars

\* The contours kept, in input order.
KeptContours ==
    LET Kept(c) == c.area >= contour_result.min_area
    IN  SelectSeq(contours, Kept)

\* C13: the list returned has one entry for each contour whose area is not
\* below min_area, in input order, none for the others, and each entry's
\* type follows from r = w / h of its bounding box: 'line/arrow' if r > 5 or
\* r < 0.2, otherwise 'square/circle' if 0.8 <= r <= 1.2, otherwise
\* 'text/rectangle' if r > 2, otherwise 'rectangle/shape'; no entry is
\* 'unknown'.
C13_ContoursClassifiedByRatio ==
    pc = "returned" =>
        LET result == contour_result.value
        IN  /\ Len(result) = Len(KeptContours)
            /\ \A i \in 1..Len(result) :
                 LET w == KeptContours[i].bbox[3]
                     h == KeptContours[i].bbox[4]
                     is_line == w > 5 * h \/ 5 * w < h
                     is_square == 4 * h <= 5 * w /\ 5 * w <= 6 * h
                     is_text == w > 2 * h
                 IN  /\ result[i].bbox = KeptContours[i].bbox
                     /\ result[i].area = KeptContours[i].area
                     /\ result[i].area >= contour_result.min_area
                     /\ result[i].type # "unknown"
                     /\ is_line => result[i].type = "line/arrow"
                     /\ ~is_line /\ is_square => result[i].type = "square/circle"
                     /\ ~is_line /\ ~is_square /\ is_text =>
                            result[i].type = "text/rectangle"
                     /\ ~is_line /\ ~is_square /\ ~is_text =>
                            result[i].type = "rectangle/shape"

\* A contour of ratio above 5 kept as 'line/arrow' between a contour that
\* was dropped and one kept as 'text/rectangle'.
C13_Witness ==
    /\ pc = "returned"
    /\ Len(contours) = 3
    /\ contours[1].area < contour_result.min_area
    /\ Len(contour_result.value) = 2
    /\ contour_result.value[1].type = "line/arrow"
    /\ contour_result.value[1].bbox[3] > 5 * contour_result.value[1].bbox[4]
    /\ contour_result.value[2].type = "text/rectangle"

\* ---------------------------- specification: detect_flattened_annotations
\* detect_flattened_annotations applied to an original and an annotated PDF
\* of up to MaxPages pages each.

\* Marks that differ between renderings: a box large enough to count, a
\* speck below min_area, and a long line.
BoxMark == [area |-> 4 * DefaultMinArea, bbox |-> <<5, 5, 30, 20>>]
SpeckMark == [area |-> DefaultMinArea - 1, bbox |-> <<40, 5, 10, 10>>]
LineMark == [area |-> DefaultMinArea, bbox |-> <<0, 50, 60, 10>>]

\* The renderings of a page: blank, or with marks on it.
PageImages == {<<>>, <<BoxMark>>, <<SpeckMark>>, <<LineMark, BoxMark>>}

RenderedDocs ==
    {[file |-> "ok", pages |-> images] :
        images \in UNION {[1..n -> PageImages] : n \in 0..MaxPages}}
        \cup {CorruptDoc, MissingDoc}

InitDetect ==
    /\ pc = "detect_flattened_annotations"
    /\ finished = {}
    /\ page_filter = NoFilter
    /\ original_pdf \in RenderedDocs
    /\ annotated_pdf \in RenderedDocs
    /\ detect_out = [printed |-> DetectStart, summary |-> -1, returned |-> FALSE]
    /\ contours = <<>>
    /\ contour_result = [min_area |-> DefaultMinArea, value |-> <<>>]
    /\ IdleParse /\ IdleValidate /\ IdleExtract /\ IdleDebug /\ IdleCopy /\ IdleMain
    /\ IdleOcr /\ IdleRecreate

DetectFlattenedAnnotations ==
    /\ pc = "detect_flattened_annotations"
    /\ detect_out' = detect_flattened_annotations(original_pdf, annotated_pdf)
    /\ pc' = "returned"
    /\ UNCHANGED <<finished, page_filter, parseVars, validateVars, extractVars,
                   debugVars, copyVars, mainVars, recreateVars, ocrVars, contours, contour_result,
                   original_pdf, annotated_pdf>>

NextDetect == DetectFlattenedAnnotations

SpecDetect == InitDetect /\ [][NextDetect]_vars

BothOpen == original_pdf.file = "ok" /\ annotated_pdf.file = "ok"

\* The marks of page p (from 1) that only one of the two PDFs has and that
\* are large enough to count.
Countable(p) ==
    {mark \in {BoxMark, SpeckMark, LineMark} :
        /\ mark.area >= DefaultMinArea
        /\ (\E i \in DOMAIN original_pdf.pages[p] : original_pdf.pages[p][i] = mark)
             # (\E i \in DOMAIN annotated_pdf.pages[p] : annotated_pdf.pages[p][i] = mark)}

\* C12: when both PDFs open, the pages reported are 0 .. min(original page
\* count, annotated page count) - 1 in order, each with the potential
\* annotations that page of the original and the same page of the annotated
\* PDF differ by; the summary total is the sum of the per-page counts; the
\* two analysis images are written for exactly the pages with at least one
\* potential annotation; and the value returned is True exactly when the
\* total is above 0.
C12_ComparesSamePagesUpToShorter ==
    (pc = "returned" /\ BothOpen) =>
        LET reported == detect_out.printed.pages
            fewer == IF Len(original_pdf.pages) <= Len(annotated_pdf.pages)
                     THEN Len(original_pdf.pages) ELSE Len(annotated_pdf.pages)
        IN  /\ Len(reported) = fewer
            /\ \A p \in 1..Len(reported) :
                 /\ reported[p].page_num = p - 1
                 /\ Len(reported[p].found) = Cardinality(Countable(p))
                 /\ \A i \in DOMAIN reported[p].found :
                       \E mark \in Countable(p) :
                           reported[p].found[i].bbox = mark.bbox
            /\ detect_out.summary =
                 SumTo([p \in DOMAIN reported |-> Len(reported[p].found)],
                       Len(reported))
            /\ \A p \in 1..MaxPages, image \in {"differences", "threshold"} :
                 (\E k \in DOMAIN detect_out.printed.saved :
                     detect_out.printed.saved[k] = [page |-> p, image |-> image])
                 <=> (p <= Len(reported) /\ reported[p].found # <<>>)
            /\ Len(detect_out.printed.saved) <= 2 * Len(reported)
            /\ detect_out.returned <=> detect_out.summary > 0

\* PDFs of different lengths: a page with two potential annotations, a page
\* with none, and a marked page of the longer PDF that is not analysed.
C12_Witness ==
    /\ pc = "returned"
    /\ BothOpen
    /\ Len(original_pdf.pages) = 2
    /\ Len(annotated_pdf.pages) = 3
    /\ annotated_pdf.pages[3] # <<>>
    /\ detect_out.summary = 2
    /\ Len(detect_out.printed.saved) = 2
    /\ detect_out.returned

\* ---------------------------- specification: analyze_text_characteristics
\* analyze_text_characteristics applied to pages of up to MaxSpans spans.

\* A span of the page dictionary.  Sizes are in hundredths of a point.
Span(font, size, color, span_text, bbox) ==
    [font |-> font, size |-> size, color |-> color, text |-> span_text,
     bbox |-> bbox]

\* Spans to count: sizes 11.96 and 12.04 round to 12.0, 12.25 to 12.2 and
\* 12.75 to 12.8; a span without a colour counts as colour 0.
CountedSpans ==
    {Span("Helvetica", 1196, Given(0), Given(<<"a">>), <<100, 100, 200, 110>>),
     Span("Helvetica", 1204, Missing, Given(<<"a">>), <<100, 100, 200, 110>>),
     Span("Times", 1225, Given(255), Given(<<"a">>), <<100, 100, 200, 110>>),
     Span("Times", 1275, Given(0), Given(<<"a">>), <<100, 100, 200, 110>>),
     Span("Helvetica", 1225, Given(255), Given(<<"a">>), <<100, 100, 200, 110>>),
     Span("Courier", 1204, Missing, Given(<<"a">>), <<100, 100, 200, 110>>)}

\* An image block: a block without "lines".
ImageBlock == [has_lines |-> FALSE, lines |-> <<>>]
TextBlock(lines) == [has_lines |-> TRUE, lines |-> lines]

\* The spans laid out as one line of one block, or as one block each after
\* an image block.
OneLine(spans) ==
    [width |-> Missing, height |-> Missing,
     blocks |-> <<TextBlock(<<[spans |-> spans]>>)>>]
OneBlockEach(spans) ==
    [width |-> Given(DefaultWidth), height |-> Given(DefaultHeight),
     blocks |-> <<ImageBlock>>
                \o [i \in DOMAIN spans |-> TextBlock(<<[spans |-> <<spans[i]>>]>>)]]

CountedPages ==
    {OneLine(spans) : spans \in UNION {[1..n -> CountedSpans] : n \in 0..MaxSpans}}
    \cup {OneBlockEach(spans) :
            spans \in UNION {[1..n -> CountedSpans] : n \in 0..MaxSpans}}

NoCharacteristics == analyze_text_characteristics([blocks |-> <<>>])

InitCharacteristics ==
    /\ pc = "analyze_text_characteristics"
    /\ finished = {}
    /\ page_filter = NoFilter
    /\ text_blocks \in CountedPages
    /\ characteristics = NoCharacteristics
    /\ potential_annotations = <<>>
    /\ IdleParse /\ IdleValidate /\ IdleExtract /\ IdleDebug /\ IdleCopy /\ IdleMain
    /\ IdleDetect /\ IdleRecreate

AnalyzeTextCharacteristics ==
    /\ pc = "analyze_text_characteristics"
    /\ characteristics' = analyze_text_characteristics(text_blocks)
    /\ pc' = "returned"
    /\ UNCHANGED <<finished, page_filter, parseVars, validateVars, extractVars,
                   debugVars, copyVars, mainVars, recreateVars, detectVars, text_blocks,
                   potential_annotations>>

NextCharacteristics == AnalyzeTextCharacteristics

SpecCharacteristics == InitCharacteristics /\ [][NextCharacteristics]_vars

\* The spans of the page: those of every line of every block with lines.
PageSpans(blocks) ==
    LET withLines == {b \in DOMAIN blocks.blocks : blocks.blocks[b].has_lines}
        places == UNION {{<<b, l, s>> :
                            l \in DOMAIN blocks.blocks[b].lines,
                            s \in 1..MaxSpans} : b \in withLines}
    IN  {p \in places : p[3] \in DOMAIN blocks.blocks[p[1]].lines[p[2]].spans}

SpanAt(blocks, p) == blocks.blocks[p[1]].lines[p[2]].spans[p[3]]

\* The tenth of a point nearest to a size, the even tenth of two equally
\* near.
NearestTenth(size) ==
    LET below == 10 * (size \div 10)
        near == {below, below + 10}
    IN  CHOOSE t \in near :
            \A u \in near :
                \/ Abs(size - t) < Abs(size - u)
                \/ Abs(size - t) = Abs(size - u) /\ (t = u \/ (t \div 10) % 2 = 0)

\* The number of spans of the page with a font, a rounded size, a colour.
SpansWithFont(font) ==
    Cardinality({p \in PageSpans(text_blocks) : SpanAt(text_blocks, p).font = font})
SpansWithSize(size) ==
    Cardinality({p \in PageSpans(text_blocks) :
                    NearestTenth(SpanAt(text_blocks, p).size) = size})
SpansWithColor(color) ==
    Cardinality({p \in PageSpans(text_blocks) :
                    IF SpanAt(text_blocks, p).color.given
                    THEN SpanAt(text_blocks, p).color.value = color
                    ELSE color = 0})

\* The counts of a returned dictionary are those of count, and add up to
\* the number of spans.
CountsAre(d, count(_)) ==
    /\ \A i \in DOMAIN d : d[i].value = count(d[i].key) /\ d[i].value > 0
    /\ \A i, j \in DOMAIN d : i # j => d[i].key # d[j].key
    /\ SumTo([i \in DOMAIN d |-> d[i].value], Len(d))
         = Cardinality(PageSpans(text_blocks))

\* C16: the counts returned in all_fonts, all_sizes and all_colors count
\* each span once (sizes rounded to one decimal, a missing colour as 0) and
\* each add up to the number of spans; on a page with spans the main font,
\* size and colour have the highest count; on a page without spans they are
\* 'unknown', 12 and 0.
C16_MainIsMostCommon ==
    pc = "returned" =>
        /\ CountsAre(characteristics.all_fonts, SpansWithFont)
        /\ CountsAre(characteristics.all_sizes, SpansWithSize)
        /\ CountsAre(characteristics.all_colors, SpansWithColor)
        /\ IF PageSpans(text_blocks) = {}
           THEN /\ characteristics.main_font = "unknown"
                /\ characteristics.main_size = 1200
                /\ characteristics.main_color = 0
           ELSE /\ \A p \in PageSpans(text_blocks) :
                     LET span == SpanAt(text_blocks, p)
                     IN  /\ SpansWithFont(characteristics.main_font)
                              >= SpansWithFont(span.font)
                         /\ SpansWithSize(characteristics.main_size)
                              >= SpansWithSize(NearestTenth(span.size))
                         /\ SpansWithColor(characteristics.main_color)
                              >= SpansWithColor(GetOr(span.color, 0))
                /\ SpansWithFont(characteristics.main_font) > 0
                /\ SpansWithSize(characteristics.main_size) > 0
                /\ SpansWithColor(characteristics.main_color) > 0

\* A page behind an image block whose first span is in the minority: the
\* main size 12.0 is that of two spans of sizes 11.96 and 12.04, and the
\* main colour 0 counts a span without colour.
C16_Witness ==
    /\ pc = "returned"
    /\ ~text_blocks.blocks[1].has_lines
    /\ Len(text_blocks.blocks) = 4
    /\ SpanAt(text_blocks, <<2, 1, 1>>).font = "Times"
    /\ SpanAt(text_blocks, <<2, 1, 1>>).size = 1225
    /\ SpanAt(text_blocks, <<3, 1, 1>>).size = 1196
    /\ SpanAt(text_blocks, <<4, 1, 1>>).size = 1204
    /\ characteristics.main_font = "Helvetica"
    /\ characteristics.main_size = 1200
    /\ characteristics.main_color = 0

\* -------------------------- specification: find_potential_annotation_text
\* find_potential_annotation_text applied to a page that holds one span
\* drawn from every kind among up to MaxFill spans before and after it, with
\* the characteristics analyze_text_characteristics returns for the page.

Letters(n) == [i \in 1..n |-> "a"]
Padded(n) == <<" ">> \o Letters(n) \o <<" ", " ">>

\* Sizes around the thresholds for a main size of 12: 2, 3 and 5 points away
\* and a quarter point beyond.
ScoredSizes == {875, 900, 1000, 1200, 1425, 1700, 1725}

\* No text, spaces only, 49 letters in spaces, 50 letters.
ScoredTexts == {Missing, Given(<<" ", " ">>), Given(Padded(49)), Given(Letters(50))}

\* Centred, in and just out of the left tenth of an A4 page, in the bottom
\* tenth.
ScoredBoxes ==
    {<<250, 400, 350, 410>>, <<10, 400, 100, 410>>, <<20, 400, 100, 410>>,
     <<250, 780, 350, 800>>}

ScoredSpans ==
    {Span(font, size, color, span_text, bbox) :
        font \in {"Helvetica", "Times"}, size \in ScoredSizes,
        color \in {Missing, Given(255)},
        span_text \in ScoredTexts, bbox \in ScoredBoxes}

\* The i-th span before or after, y its line on the page: body text, or a
\* note in the left margin.
BodySpan(y, i) ==
    Span("Helvetica", 1200, Given(0), Given(Letters(60)),
         <<100, y + 20 * i, 500, y + 20 * i + 12>>)
NoteSpan(y, i) ==
    Span("Times", 1200, Given(255), Given(<<"n">>),
         <<10, y + 20 * i, 40, y + 20 * i + 12>>)

BodyFills(y) == {[i \in 1..n |-> BodySpan(y, i)] : n \in {0, MaxFill}}

SpanFills(y) ==
    UNION {{[i \in 1..n |-> IF i \in notes THEN NoteSpan(y, i) ELSE BodySpan(y, i)] :
              notes \in SUBSET (1..n)} : n \in 0..MaxFill}

\* An A4 page whose dictionary lacks the size, and a letter page.
PageSizes ==
    {[width |-> Missing, height |-> Missing],
     [width |-> Given(612), height |-> Given(792)]}

ScoredPages ==
    {[width |-> size.width, height |-> size.height,
      blocks |-> <<ImageBlock,
                   TextBlock(<<[spans |-> before], [spans |-> <<span>>]>>),
                   TextBlock(<<[spans |-> after]>>)>>] :
        size \in PageSizes, before \in SpanFills(100), span \in ScoredSpans,
        after \in BodyFills(600)}

InitScore ==
    /\ pc = "find_potential_annotation_text"
    /\ finished = {}
    /\ page_filter = NoFilter
    /\ text_blocks \in ScoredPages
    /\ characteristics = analyze_text_characteristics(text_blocks)
    /\ potential_annotations = <<>>
    /\ IdleParse /\ IdleValidate /\ IdleExtract /\ IdleDebug /\ IdleCopy /\ IdleMain
    /\ IdleDetect /\ IdleRecreate

FindPotentialAnnotationText ==
    /\ pc = "find_potential_annotation_text"
    /\ potential_annotations' =
         find_potential_annotation_text(text_blocks, characteristics)
    /\ pc' = "returned"
    /\ UNCHANGED <<finished, page_filter, parseVars, validateVars, extractVars,
                   debugVars, copyVars, mainVars, recreateVars, detectVars, text_blocks,
                   characteristics>>

NextScore == FindPotentialAnnotationText

SpecScore == InitScore /\ [][NextScore]_vars

\* The text of a span without the spaces around it: empty when it has no
\* other character.
StrippedLength(span) ==
    LET chars == IF span.text.given THEN span.text.value ELSE <<>>
        solid == {i \in DOMAIN chars : chars[i] # " "}
    IN  IF solid = {} THEN 0
        ELSE (CHOOSE i \in solid : \A j \in solid : j <= i)
             - (CHOOSE i \in solid : \A j \in solid : j >= i) + 1

\* The centre of the span lies in the outer tenth of the page's width or
\* height; twice the centre is x0 + x1, y0 + y1.
CentreInOuterTenth(span) ==
    LET page_width == IF text_blocks.width.given THEN text_blocks.width.value ELSE 595
        page_height == IF text_blocks.height.given THEN text_blocks.height.value ELSE 842
        twice_x == span.bbox[1] + span.bbox[3]
        twice_y == span.bbox[2] + span.bbox[4]
    IN  \/ 10 * twice_x < 2 * page_width
        \/ 10 * twice_x > 18 * page_width
        \/ 10 * twice_y < 2 * page_height
        \/ 10 * twice_y > 18 * page_height

\* The six terms of the score, in the claim's order, with the reason of
\* each; the last term is 'smaller text' or 'larger text'.
TermApplies(span, k) ==
    LET colour == IF span.color.given THEN span.color.value ELSE 0
        apart == span.size - characteristics.main_size
    IN  CASE k = 1 -> span.font # characteristics.main_font
          [] k = 2 -> apart > 200 \/ apart < -200
          [] k = 3 -> colour # characteristics.main_color
          [] k = 4 -> CentreInOuterTenth(span)
          [] k = 5 -> StrippedLength(span) < 50
          [] k = 6 -> apart < -300 \/ apart > 500

TermPoints == <<2, 2, 3, 2, 1, 1>>

TermReason(span, k) ==
    CASE k = 1 -> "different font"
      [] k = 2 -> "different size"
      [] k = 3 -> "different color"
      [] k = 4 -> "in margin"
      [] k = 5 -> "short text"
      [] k = 6 -> IF span.size < characteristics.main_size
                  THEN "smaller text" ELSE "larger text"

ClaimedScore(span) ==
    SumTo([k \in 1..6 |-> IF TermApplies(span, k) THEN TermPoints[k] ELSE 0], 6)

ClaimedReasons(span) ==
    LET Applies(k) == TermApplies(span, k)
        applied == SelectSeq(<<1, 2, 3, 4, 5, 6>>, Applies)
    IN  [i \in DOMAIN applied |-> TermReason(span, applied[i])]

ToReport(span) == StrippedLength(span) > 0 /\ ClaimedScore(span) >= 3

\* The entries returned for the span at place p.
EntriesOf(p) ==
    {i \in DOMAIN potential_annotations :
        potential_annotations[i].bbox = SpanAt(text_blocks, p).bbox}

\* Reading order of places <<block, line, span>>.
ReadBefore(p, q) ==
    \/ p[1] < q[1]
    \/ p[1] = q[1] /\ p[2] < q[2]
    \/ p[1] = q[1] /\ p[2] = q[2] /\ p[3] < q[3]

\* C14: a span is reported exactly when its stripped text is not empty and
\* its score is at least 3, once and in reading order, the score being the
\* sum of 2 for a font other than the main font, 2 for a size more than 2
\* away from the main size, 3 for a colour other than the main colour, 2 for
\* a centre in the outer tenth of the page, 1 for fewer than 50 characters
\* and 1 for a size below main - 3 or above main + 5; the entry's score and
\* reasons are those of the terms that applied.
C14_ReportedIffScoreAtLeastThree ==
    pc = "returned" =>
        /\ \A p \in PageSpans(text_blocks) :
             LET span == SpanAt(text_blocks, p)
             IN  /\ Cardinality(EntriesOf(p)) = IF ToReport(span) THEN 1 ELSE 0
                 /\ \A i \in EntriesOf(p) :
                      /\ potential_annotations[i].score = ClaimedScore(span)
                      /\ potential_annotations[i].reasons = ClaimedReasons(span)
                      /\ Len(potential_annotations[i].text) = StrippedLength(span)
                      /\ potential_annotations[i].font = span.font
                      /\ potential_annotations[i].size = span.size
        /\ Len(potential_annotations) =
             Cardinality({p \in PageSpans(text_blocks) :
                             ToReport(SpanAt(text_blocks, p))})
        /\ \A p, q \in PageSpans(text_blocks) :
             ReadBefore(p, q) =>
                 \A i \in EntriesOf(p), j \in EntriesOf(q) : i < j

\* After a margin note that is reported and before body text that is not:
\* a span of 49 letters in spaces, 5 points above the main size and in the
\* main font, reported with score 3 for its size and its length, and not
\* counted as larger text.
C14_Witness ==
    /\ pc = "returned"
    /\ characteristics.main_size = 1200
    /\ Len(text_blocks.blocks[2].lines[1].spans) = 1
    /\ Len(text_blocks.blocks[3].lines[1].spans) = 1
    /\ Len(potential_annotations) = 2
    /\ potential_annotations[1].in_margin
    /\ potential_annotations[2].size = 1700
    /\ potential_annotations[2].score = 3
    /\ potential_annotations[2].reasons = <<"different size", "short text">>
    /\ Len(potential_annotations[2].text) = 49

\* ------------------------------------------------------------- SpecRecreate
\* An interactive session of recreate_annotations.py: main has opened the
\* input PDF and entered interactive_mode; each action is one round of the
\* menu or one step of main after interactive_mode.

RecreatedDocs ==
    {[file |-> "ok", pages |-> [i \in 1..n |-> <<>>]] : n \in 1..MaxPages}

InitRecreate ==
    /\ pc = "menu"
    /\ finished = {}
    /\ page_filter = NoFilter
    /\ recreator \in {AnnotationRecreator(doc) : doc \in RecreatedDocs}
    /\ session = SessionStart
    /\ IdleParse /\ IdleValidate /\ IdleExtract /\ IdleDebug /\ IdleCopy /\ IdleMain
    /\ IdleDetect /\ IdleOcr

RecreateIdle ==
    UNCHANGED <<finished, page_filter, parseVars, validateVars, extractVars,
                debugVars, copyVars, mainVars, detectVars, ocrVars>>

TakeRound(round) ==
    /\ recreator' = round.recreator
    /\ session' = round.session
    /\ pc' = round.pc
    /\ RecreateIdle

\* The prompt for the choice is interrupted or finds the input at its end.
ChoicePrompt ==
    /\ pc = "menu"
    /\ session.rounds < MaxRounds
    /\ \E outcome \in {"KeyboardInterrupt", "EOFError"} :
          TakeRound(Round(recreator, session, outcome, recreator))

\* Choice 1.
ShowPageInfo ==
    /\ pc = "menu"
    /\ session.rounds < MaxRounds
    /\ \E outcome \in Outcomes \ {"no such page"} :
          TakeRound(Round(recreator, session, outcome, recreator))

\* Choices 2 to 5.
AddAnnotation ==
    /\ pc = "menu"
    /\ session.rounds < MaxRounds
    /\ \E choice \in AddChoices, outcome \in Outcomes,
          page_num \in 0..(Len(recreator.doc.pages) - 1) :
          TakeRound(Round(recreator, session, outcome,
                          add_annotation(recreator, choice, page_num)))

\* Any other choice than "1" to "7".
InvalidChoice ==
    /\ pc = "menu"
    /\ session.rounds < MaxRounds
    /\ TakeRound(Round(recreator, session, "ok", recreator))

\* Choices 6 and 7 end interactive_mode.
EndingChoice(choice) ==
    /\ pc = "menu"
    /\ session' = [session EXCEPT
                     !.ended_by = choice,
                     !.returned = IF ChoiceReturns(choice) THEN "True" ELSE "False"]
    /\ pc' = "returned"
    /\ UNCHANGED recreator
    /\ RecreateIdle

SaveAndExit == EndingChoice("6")

ExitWithoutSaving == EndingChoice("7")

\* main, interactive_mode having returned True.
SavePdf ==
    /\ pc = "returned"
    /\ session.returned = "True"
    /\ session' = save_pdf(recreator, session, output_pdf)
    /\ pc' = "export_prompt"
    /\ UNCHANGED recreator
    /\ RecreateIdle

ExportPrompt ==
    /\ pc = "export_prompt"
    /\ \E answer \in {"y", "n", "EOFError"} :
          /\ session' = CASE answer = "y" -> export_annotations_template(recreator, session)
                          [] answer = "n" -> session
                          [] answer = "EOFError" -> [session EXCEPT !.exit = "1"]
          /\ pc' = IF answer = "EOFError" THEN "done" ELSE "close"
    /\ UNCHANGED recreator
    /\ RecreateIdle

\* main closes the document and ends.
Close ==
    /\ \/ pc = "close"
       \/ pc = "returned" /\ session.returned = "False"
    /\ session' = [session EXCEPT !.exit = "0"]
    /\ pc' = "done"
    /\ UNCHANGED recreator
    /\ RecreateIdle

\* main's except clause: the error is printed and the process exits with 1.
MainExcept ==
    /\ pc = "except"
    /\ session' = [session EXCEPT !.exit = "1"]
    /\ pc' = "done"
    /\ UNCHANGED recreator
    /\ RecreateIdle

NextRecreate ==
    \/ ChoicePrompt
    \/ ShowPageInfo
    \/ AddAnnotation
    \/ InvalidChoice
    \/ SaveAndExit
    \/ ExitWithoutSaving
    \/ SavePdf
    \/ ExportPrompt
    \/ Close
    \/ MainExcept

SpecRecreate == InitRecreate /\ [][NextRecreate]_vars

SavePdfCalled == session.saved # <<>>

RECURSIVE AnnotationsOn(_, _)
AnnotationsOn(pages, n) ==
    IF n = 0 THEN 0 ELSE Len(pages[n]) + AnnotationsOn(pages, n - 1)

\* C15: in interactive mode the output PDF is saved if and only if the
\* session ends with choice 6: interactive_mode returns True only for
\* choice 6; after choice 7 or a keyboard interrupt it returns False and
\* save_pdf is never called, however many annotations were added; and once
\* main is done after choice 6, save_pdf has been called exactly once, with
\* the output path and the document holding every annotation added.
C15_SavedIffSaveAndExit ==
    /\ session.returned = "True" => session.ended_by = "6"
    /\ session.ended_by \in {"7", "KeyboardInterrupt"} =>
          session.returned = "False" /\ ~SavePdfCalled
    /\ SavePdfCalled => session.ended_by = "6"
    /\ pc = "done" => (SavePdfCalled <=> session.ended_by = "6")
    /\ SavePdfCalled =>
          /\ session.saved = <<[path |-> output_pdf, doc |-> recreator.doc]>>
          /\ AnnotationsOn(recreator.doc.pages, Len(recreator.doc.pages))
                = Len(recreator.annotations)

\* A session in which annotations were added and which ended with choice 7:
\* main is done and nothing was saved.
C15_Witness ==
    /\ pc = "done"
    /\ session.ended_by = "7"
    /\ Len(recreator.annotations) >= 2
    /\ ~SavePdfCalled

====
